---- MODULE Spec2Model ----
(***************************************************************************)
(* Model of the tonkbook AI worker's source indexing pipeline:             *)
(*   workers/ai/src/services/vectorService.ts   (VectorService: chunker,   *)
(*       addDocument / removeDocument; CSVQueryService)                    *)
(*   workers/ai/src/services/indexingService.ts (IndexingService: watch    *)
(*       loop, routing by type, batch progress accounting)                 *)
(* Strings are sequences of one-character strings; indices are 0-based as  *)
(* in the source and converted at the sequence accesses.                   *)
(***************************************************************************)
EXTENDS Integers, Sequences, FiniteSets, TLC

\* ----- bounds of the chunker specification -----
MaxContentLen == 8
MaxSmallSize == 7
MaxSmallOverlap == 2
\* ----- bounds of the adapter and of the indexing service specifications -----
MaxCalls == 3
MaxFaults == 1
MaxEdits == 1
MaxCallbacks == 1
MaxScans == 2
MaxLongScans == 3

\* ----- program constants -----
maxChunkSize == 800
overlap == 150
batchSize == 25

Alphabet == {"a", ".", " "}

VARIABLES
    content,    \* chunker: the content string being chunked
    maxSize,    \* chunker: the window size in force (maxChunkSize)
    ovl,        \* chunker: the overlap in force (overlap)
    cd,         \* frame of chunkDocument: startIndex, chunkIndex, chunks, ...
    cc,         \* frame of calculateChunkCount: startIndex, chunkCount, ...
    covered,    \* history: character positions that lay in some window
    collection, \* the engine's collection "tonkbook_sources": a set of chunks
    csvSources, \* CSVQueryService.csvSources: source id -> parsed CSV data
    svc,        \* the IndexingService object: its private fields
    docs,       \* the shared document store under tonkbook/data: name -> document
    tasks,      \* the async call chains in flight, by task number
    faults,     \* number of engine and store calls that have failed so far
    calls,      \* number of direct calls made on the adapter so far
    edits,      \* number of writes made to the document store so far
    scans,      \* number of scans started so far
    history,    \* history: the direct calls on the two indexes and how they ended
    indexLog,   \* history: the indexSource calls, in call order
    notifications, \* history: the change notifications, in order of emission
    csvCache,   \* the UI side's CSVQueryService.csvCache, in insertion order
    rag,        \* frame of RAGService.queryRelevantSources and how the call ended
    queryResult, \* what the CSVQueryService.smartQuery called last returned
    engineLog,  \* history: the engine calls of the direct calls, issued and settled
    subscriptions \* the document store: path -> number of listenToDoc subscriptions in force

chunkerVars == <<content, maxSize, ovl, cd, cc, covered>>
adapterVars == <<collection, calls, history, engineLog>>
serviceVars == <<csvSources, svc, docs, edits, scans, indexLog, notifications, subscriptions>>
retrievalVars == <<csvCache, rag, queryResult>>
vars == <<content, maxSize, ovl, cd, cc, covered, collection, csvSources, svc, docs,
          tasks, faults, calls, edits, scans, history, indexLog, notifications,
          csvCache, rag, queryResult, engineLog, subscriptions>>

\* ----- arithmetic and string primitives used by the source -----
Min(a, b) == IF a < b THEN a ELSE b
Max(a, b) == IF a > b THEN a ELSE b
SetMax(S) == CHOOSE x \in S : \A y \in S : y <= x
SetMin(S) == CHOOSE x \in S : \A y \in S : x <= y
\* Math.ceil(n / d) for n >= 0, d > 0
Ceil(n, d) == (n + d - 1) \div d

\* String.prototype.slice(b, e): negative indices count from the end,
\* indices are clamped to [0, length], empty when b >= e.
slice(s, b, e) ==
    LET n  == Len(s)
        cb == IF b < 0 THEN Max(n + b, 0) ELSE Min(b, n)
        ce == IF e < 0 THEN Max(n + e, 0) ELSE Min(e, n)
    IN  SubSeq(s, cb + 1, ce)

\* String.prototype.lastIndexOf(". "): 0-based index of the last occurrence, -1 if none.
lastIndexOf(s) ==
    LET hits == {i \in 0..(Len(s) - 2) : s[i + 1] = "." /\ s[i + 2] = " "}
    IN  IF hits = {} THEN -1 ELSE SetMax(hits)

\* String.prototype.trim(): strips leading and trailing whitespace.
IsSpace(ch) == ch \in {" ", "\n"}

trim(s) ==
    LET ns == {i \in 1..Len(s) : ~IsSpace(s[i])}
    IN  IF ns = {} THEN <<>> ELSE SubSeq(s, SetMin(ns), SetMax(ns))

\* `lastSentenceEnd > maxChunkSize * 0.7`, in integers
beyondThreshold(lastSentenceEnd, ms) == 10 * lastSentenceEnd > 7 * ms

\* ----- chunkDocument: one iteration of the while loop -----
\* the window end chosen by chunkDocument for the window starting at startIndex
chunkActualEndIndex(c, startIndex, ms) ==
    LET endIndex        == Min(startIndex + ms, Len(c))
        chunkContent    == slice(c, startIndex, endIndex)
        lastSentenceEnd == lastIndexOf(chunkContent)
    IN  IF endIndex < Len(c) /\ beyondThreshold(lastSentenceEnd, ms)
        THEN startIndex + lastSentenceEnd + 1
        ELSE endIndex

\* variants of the advance that a slip in line 301 would give
chunkNextStartIndexUnclamped(actualEndIndex, startIndex, ov) ==
    actualEndIndex - ov

chunkNextStartIndexAdded(actualEndIndex, startIndex, ov) ==
    Max(actualEndIndex + ov, startIndex + 1)

chunkNextStartIndex(actualEndIndex, startIndex, ov) ==
    Max(actualEndIndex - ov, startIndex + 1)

chunkKeep(finalContent) == Len(finalContent) > 0

\* source is [id, type]; st is the loop's frame
chunkDocumentIter(c, source, ms, ov, st) ==
    LET actualEndIndex == chunkActualEndIndex(c, st.startIndex, ms)
        finalContent   == trim(slice(c, st.startIndex, actualEndIndex))
        keep           == chunkKeep(finalContent)
        chunk          == [id         |-> <<source.id, st.chunkIndex>>,
                           content    |-> finalContent,
                           sourceId   |-> source.id,
                           sourceType |-> source.type,
                           chunkIndex |-> st.chunkIndex]
        next           == chunkNextStartIndex(actualEndIndex, st.startIndex, ov)
    IN  [startIndex     |-> next,
         chunkIndex     |-> IF keep THEN st.chunkIndex + 1 ELSE st.chunkIndex,
         chunks         |-> IF keep THEN Append(st.chunks, chunk) ELSE st.chunks,
         windowStart    |-> st.startIndex,
         actualEndIndex |-> actualEndIndex,
         iterations     |-> st.iterations + 1,
         pc             |-> IF next >= actualEndIndex \/ ~(next < Len(c))
                            THEN "done" ELSE "loop"]

chunkDocumentEntry(c) ==
    [startIndex |-> 0, chunkIndex |-> 0, chunks |-> <<>>,
     windowStart |-> 0, actualEndIndex |-> 0, iterations |-> 0,
     pc |-> IF 0 < Len(c) THEN "loop" ELSE "done"]

\* ----- calculateChunkCount: one iteration of the while loop -----
countActualEndIndex(c, startIndex, ms) ==
    LET endIndex        == Min(startIndex + ms, Len(c))
        chunkContent    == slice(c, startIndex, endIndex)
        lastSentenceEnd == lastIndexOf(chunkContent)
    IN  IF endIndex < Len(c) /\ beyondThreshold(lastSentenceEnd, ms)
        THEN startIndex + lastSentenceEnd + 1
        ELSE endIndex

countNextStartIndex(actualEndIndex, startIndex, ov) ==
    Max(actualEndIndex - ov, startIndex + 1)

\* variant of the count that skips the emptiness test of line 83
countKeepAlways(finalContent) == TRUE

countKeep(finalContent) == Len(finalContent) > 0

calculateChunkCountIter(c, ms, ov, st) ==
    LET actualEndIndex == countActualEndIndex(c, st.startIndex, ms)
        finalContent   == trim(slice(c, st.startIndex, actualEndIndex))
        next           == countNextStartIndex(actualEndIndex, st.startIndex, ov)
    IN  [startIndex |-> next,
         chunkCount |-> IF countKeep(finalContent) THEN st.chunkCount + 1 ELSE st.chunkCount,
         pc         |-> IF next >= actualEndIndex \/ ~(next < Len(c))
                        THEN "done" ELSE "loop"]

calculateChunkCountEntry(c) ==
    [startIndex |-> 0, chunkCount |-> 0,
     pc |-> IF 0 < Len(c) THEN "loop" ELSE "done"]

\* ======================= the vector index adapter =======================

\* the two loops as the functions the adapter and the service call, with the
\* compiled-in window
RECURSIVE chunkDocumentRun(_, _, _)
chunkDocumentRun(c, source, st) ==
    IF st.pc = "done" THEN st.chunks
    ELSE chunkDocumentRun(c, source,
             chunkDocumentIter(c, source, maxChunkSize, overlap, st))

chunkDocument(c, source) == chunkDocumentRun(c, source, chunkDocumentEntry(c))

RECURSIVE calculateChunkCountRun(_, _)
calculateChunkCountRun(c, st) ==
    IF st.pc = "done" THEN st.chunkCount
    ELSE calculateChunkCountRun(c, calculateChunkCountIter(c, maxChunkSize, overlap, st))

calculateChunkCount(c) == calculateChunkCountRun(c, calculateChunkCountEntry(c))

\* a value that is `undefined` where a string is expected (doc.content! of a
\* document without content)
Undefined == <<"undefined">>
Truthy(s) == s # Undefined /\ Len(s) > 0

\* ----- the engine (chromadb collection) as the adapter uses it -----
\* collection.delete({where: {sourceId}})
engineDelete(coll, sourceId) == {ch \in coll : ch.sourceId # sourceId}

\* collection.add({ids, documents, metadatas}): an id that is already stored is
\* either left as it is or overwritten, depending on the engine
engineAdd(coll, batch, dup) ==
    LET ids == {b.id : b \in batch}
    IN  IF dup = "ignore"
        THEN coll \cup {b \in batch : \A ch \in coll : ch.id # b.id}
        ELSE {ch \in coll : ch.id \notin ids} \cup batch

DupPolicies(coll, batch) ==
    IF \E b \in batch : \E ch \in coll : ch.id = b.id
    THEN {"ignore", "overwrite"} ELSE {"ignore"}

SeqToSet(q) == {q[k] : k \in 1..Len(q)}

\* a batch end that takes all the chunks that are left
batchEndOfRest(chunks, i) == Len(chunks)

\* the batch of the chunk list that starts at 0-based offset i
batchEndOf(chunks, i) == Min(i + batchSize, Len(chunks))
batchOf(chunks, i) == SubSeq(chunks, i + 1, batchEndOf(chunks, i))
batchIndexOf(i) == (i \div batchSize) + 1

\* ======================= the tabular index =======================

\* String.prototype.split("\n")
RECURSIVE split(_)
split(s) ==
    LET nl == {i \in 1..Len(s) : s[i] = "\n"}
    IN  IF nl = {} THEN <<s>>
        ELSE <<SubSeq(s, 1, SetMin(nl) - 1)>> \o split(SubSeq(s, SetMin(nl) + 1, Len(s)))

RECURSIVE parseCSVLineFrom(_, _, _, _, _)
parseCSVLineFrom(line, i, result, current, inQuotes) ==
    IF i > Len(line) THEN Append(result, trim(current))
    ELSE IF line[i] = "\"" THEN parseCSVLineFrom(line, i + 1, result, current, ~inQuotes)
    ELSE IF line[i] = "," /\ ~inQuotes
         THEN parseCSVLineFrom(line, i + 1, Append(result, trim(current)), <<>>, inQuotes)
    ELSE parseCSVLineFrom(line, i + 1, result, Append(current, line[i]), inQuotes)

parseCSVLine(line) == parseCSVLineFrom(line, 1, <<>>, <<>>, FALSE)

\* row[header] = values[index] || "", headers taken in order (a repeated header
\* keeps the value of its last column)
rowOf(headers, values) ==
    [h \in SeqToSet(headers) |->
        LET k == SetMax({j \in 1..Len(headers) : headers[j] = h})
        IN  IF k <= Len(values) THEN values[k] ELSE <<>>]

parseCSV(csvContent) ==
    LET lines   == split(trim(csvContent))
        headers == parseCSVLine(lines[1])
    IN  [headers |-> headers,
         rows    |-> [k \in 1..(Len(lines) - 1) |-> rowOf(headers, parseCSVLine(lines[k + 1]))]]

addCSVSource(csv, source, csvContent) ==
    LET parsedData == parseCSV(csvContent)
    IN  (source.id :> [sourceId |-> source.id,
                       headers  |-> parsedData.headers,
                       rows     |-> parsedData.rows])
        @@ csv

\* removeCSVSource(sourceId): delete the entry if there is one
removeCSVSource(csv, sourceId) ==
    IF sourceId \in DOMAIN csv
    THEN [k \in DOMAIN csv \ {sourceId} |-> csv[k]]
    ELSE csv
\* ======================= documents and task frames =======================

Paths == {"d1", "d2"}
PathOrder == <<"d1", "d2">>

NoDoc == [absent |-> TRUE]
NoId == <<"none", "">>

\* ls("tonkbook/data").children.filter(child => child.type === "doc")
listing(d) == SelectSeq(PathOrder, LAMBDA p : d[p] # NoDoc)

\* doc.id || documentPath.replace(/\//g, "_")
sourceIdOf(doc, path) == IF doc.id = NoId THEN <<"path", path>> ELSE doc.id
\* doc.metadata?.type || "text"
sourceTypeOf(doc) == IF doc.type = "none" THEN "text" ELSE doc.type
\* doc && (doc.content || doc.rawCsvContent)
carriesContent(doc) ==
    doc # NoDoc /\ (Truthy(doc.content) \/ Truthy(doc.rawCsvContent))

NoSource == [id |-> NoId, type |-> "text"]
NoProgress == [sourceId |-> NoId, batchIndex |-> 0, totalChunks |-> 0, processedChunks |-> 0]

\* a call chain: kind is "scan" (scanAndIndexExistingDocs and what it awaits),
\* "cb" (a listenToDoc callback) or "direct" (a call made on the adapter);
\* n numbers the scan or the notification
Frame(kind, pc, n) ==
    [kind |-> kind, pc |-> pc, n |-> n, path |-> "", doc |-> NoDoc,
     source |-> NoSource, content |-> <<>>, startingBatchCount |-> 0,
     chunks |-> <<>>, i |-> 0, children |-> <<>>, idx |-> 0,
     preChildren |-> <<>>, preIdx |-> 0, totalChunks |-> 0]

MaxTasks == MaxScans + MaxEdits + 1
\* k more call chains that start in frame f, under the lowest free task numbers
RECURSIVE SpawnInto(_, _, _)
SpawnInto(ts, f, k) ==
    IF k = 0 THEN ts
    ELSE SpawnInto((SetMin((1..MaxTasks) \ DOMAIN ts) :> f) @@ ts, f, k - 1)
Spawn(f) == SpawnInto(tasks, f, 1)
Drop(t) == [u \in (DOMAIN tasks) \ {t} |-> tasks[u]]

\* ======================= the indexing service =======================

NewIndexingService ==
    [listeners |-> {}, watchedPaths |-> {}, pendingIndexing |-> {},
     indexedVectorSources |-> {}, indexedCsvSources |-> {},
     totalSourcesFound |-> 0, totalBatches |-> 0, processedBatches |-> 0,
     currentBatchProgress |-> NoProgress, batchCalculationComplete |-> FALSE]

\* the onBatchProgress closure of indexSource; a direct call passes none
onBatchProgress(s, f, batchIndex, processedChunks, totalChunks) ==
    IF f.kind = "direct" THEN s
    ELSE [s EXCEPT !.currentBatchProgress =
                       [sourceId |-> f.source.id, batchIndex |-> batchIndex,
                        totalChunks |-> totalChunks, processedChunks |-> processedChunks],
                   !.processedBatches = f.startingBatchCount + batchIndex]

\* addDocument's call onBatchProgress(batchIndex, totalBatches, processedChunks,
\* totalChunks): four arguments bound to the closure's three parameters
reportProgress(s, f, batchIndex, totalBatches, processedChunks, totalChunks) ==
    onBatchProgress(s, f, batchIndex, totalBatches, processedChunks)

\* the for loop of scanAndIndexExistingDocs from child f.idx on, up to the
\* first await that suspends (listenToDoc) or the end of the scan
RECURSIVE scanAdvance(_, _)
scanAdvance(s, f) ==
    IF f.idx > Len(f.children) THEN [svc |-> s, alive |-> FALSE, f |-> f]
    ELSE LET fullPath == f.children[f.idx]
         IN  IF fullPath \in s.watchedPaths
             THEN scanAdvance(s, [f EXCEPT !.idx = @ + 1])
             ELSE LET s1 == [s EXCEPT !.pendingIndexing = @ \cup {fullPath}]
                  IN  IF fullPath \in s1.listeners
                      THEN scanAdvance([s1 EXCEPT !.watchedPaths = @ \cup {fullPath}],
                                       [f EXCEPT !.idx = @ + 1])
                      ELSE [svc |-> s1, alive |-> TRUE,
                            f |-> [f EXCEPT !.pc = "subscribing", !.path = fullPath]]

\* indexSource has returned: a callback or a direct call ends; a scan is back
\* in its loop after `await this.watchSourceDocument(fullPath)`
returnToCaller(s, f) ==
    IF f.kind = "scan"
    THEN scanAdvance([s EXCEPT !.watchedPaths = @ \cup {f.path}], [f EXCEPT !.idx = @ + 1])
    ELSE [svc |-> s, alive |-> FALSE, f |-> f]

\* an indexSource without its catch: the error ends the whole call chain
indexSourceCatchEscapes(s, f) ==
    [svc |-> s, alive |-> FALSE, f |-> f]

\* a catch block that leaves the path in the pending set
indexSourceCatchKeepsPending(s, f) ==
    returnToCaller(s, f)

\* the catch block of indexSource
indexSourceCatch(s, f) ==
    IF f.kind = "direct" THEN returnToCaller(s, f)
    ELSE returnToCaller([s EXCEPT !.pendingIndexing = @ \ {f.path}], f)

\* indexSource after addDocument has returned
indexSourceVectorDone(s, f) ==
    IF f.kind = "direct" THEN returnToCaller(s, f)
    ELSE LET finalChunkCount == calculateChunkCount(f.content)
             finalBatchCount == Ceil(finalChunkCount, batchSize)
         IN  returnToCaller(
                 [s EXCEPT !.indexedVectorSources = @ \cup {f.source.id},
                           !.processedBatches = f.startingBatchCount + finalBatchCount,
                           !.pendingIndexing = @ \ {f.path}], f)

\* the type label addDocument is given: the default branch forces "text"
typeLabel(sourceType) ==
    IF sourceType \in {"text", "pdf", "web"} THEN sourceType ELSE "text"

\* a csv branch that prefers content to rawCsvContent
csvContentOfContentFirst(doc) ==
    IF Truthy(doc.content) THEN doc.content ELSE doc.rawCsvContent

\* the content the csv branch hands to addCSVSource
csvContentOf(doc) ==
    IF Truthy(doc.rawCsvContent) THEN doc.rawCsvContent ELSE doc.content

\* indexSource(doc, documentPath) up to its first suspension: the csv branch
\* runs to the end, the other branches suspend in the engine's delete
indexSource(s, csv, f, doc, documentPath) ==
    LET sourceId   == sourceIdOf(doc, documentPath)
        sourceType == sourceTypeOf(doc)
        f1 == [f EXCEPT !.doc = doc, !.path = documentPath,
                        !.startingBatchCount = s.processedBatches,
                        !.chunks = <<>>, !.i = 0]
    IN  IF sourceType = "csv"
        THEN LET csvContent == csvContentOf(doc)
                 f2 == [f1 EXCEPT !.source = [id |-> sourceId, type |-> "csv"],
                                  !.content = csvContent]
             IN  IF Truthy(csvContent)
                 THEN [csv |-> addCSVSource(csv, f2.source, csvContent), deletes |-> 0]
                      @@ returnToCaller(
                          [s EXCEPT !.indexedCsvSources = @ \cup {sourceId},
                                    !.processedBatches = @ + 1,
                                    !.currentBatchProgress =
                                        [sourceId |-> sourceId, batchIndex |-> 1,
                                         totalChunks |-> 1, processedChunks |-> 1],
                                    !.pendingIndexing = @ \ {documentPath}], f2)
                 ELSE [csv |-> csv, deletes |-> 0]
                      @@ returnToCaller([s EXCEPT !.pendingIndexing = @ \ {documentPath}], f2)
        ELSE [csv |-> csv, deletes |-> 1, svc |-> s, alive |-> TRUE,
              f |-> [f1 EXCEPT !.pc = "delete",
                               !.source = [id |-> sourceId, type |-> typeLabel(sourceType)],
                               !.content = doc.content]]

\* the record indexLog keeps of one indexSource call
logEntry(trigger, f, doc, documentPath, r) ==
    [trigger |-> trigger, n |-> f.n, path |-> documentPath, doc |-> doc,
     deletes |-> r.deletes]
\* ======================= steps of the call chains =======================

othersUnchanged ==
    UNCHANGED <<chunkerVars, retrievalVars, docs, calls, edits, scans, notifications, subscriptions>>

\* an entry of engineLog: call n issued or settled a collection.delete or a
\* collection.add, the add with these ids
EngineEvent(n, op, phase, ids) == [call |-> n, op |-> op, phase |-> phase, ids |-> ids]

\* the engine calls that settle and are issued when frame f goes on as r says
engineEvents(f, r) ==
    LET settled == IF f.pc \in {"delete", "remove"}
                   THEN <<EngineEvent(f.n, "delete", "settled", <<>>)>>
                   ELSE IF f.pc = "add" THEN <<EngineEvent(f.n, "add", "settled", <<>>)>>
                   ELSE <<>>
        batch   == batchOf(r.f.chunks, r.f.i)
        issued  == IF r.alive /\ r.f.pc = "add" /\ f.pc # "add"
                   THEN <<EngineEvent(f.n, "add", "issued", [k \in 1..Len(batch) |-> batch[k].id])>>
                   ELSE <<>>
    IN  settled \o issued

\* the chain of task t goes on as r says; a direct call that ends is recorded
Continue(t, r, outcome) ==
    /\ svc' = r.svc
    /\ tasks' = IF r.alive THEN [tasks EXCEPT ![t] = r.f] ELSE Drop(t)
    /\ history' = IF tasks[t].kind = "direct"
                  THEN [history EXCEPT ![Len(history)].outcome = outcome]
                  ELSE history
    /\ engineLog' = IF tasks[t].kind = "direct"
                    THEN engineLog \o engineEvents(tasks[t], r)
                    ELSE engineLog

\* removeDocument's collection.delete settles (a rejection is swallowed by the
\* catch of removeDocument); addDocument then chunks the content and either
\* returns (no chunk), throws (content undefined) or issues the first add
DeleteDone(t, ok) ==
    /\ t \in DOMAIN tasks
    /\ tasks[t].pc = "delete"
    /\ ok \/ faults < MaxFaults
    /\ faults' = IF ok THEN faults ELSE faults + 1
    /\ collection' = IF ok THEN engineDelete(collection, tasks[t].source.id) ELSE collection
    /\ LET f == tasks[t]
       IN  IF f.content = Undefined
           THEN Continue(t, indexSourceCatch(svc, f), "threw")
           ELSE LET chunks == chunkDocument(f.content, f.source)
                    totalBatches == Ceil(Len(chunks), batchSize)
                    f1 == [f EXCEPT !.chunks = chunks, !.i = 0, !.pc = "add"]
                IN  IF Len(chunks) = 0
                    THEN Continue(t, indexSourceVectorDone(svc, f), "returned")
                    ELSE Continue(t, [svc |-> reportProgress(svc, f1, 0, totalBatches, 0, Len(chunks)),
                                      alive |-> TRUE, f |-> f1], "running")
    /\ UNCHANGED <<csvSources, indexLog>>
    /\ othersUnchanged

\* a catch that logs the failed batch and goes on with the next one
addBatchCatchSwallow(s, f) ==
    IF f.i + batchSize < Len(f.chunks)
    THEN [svc |-> s, alive |-> TRUE, f |-> [f EXCEPT !.pc = "delay"]]
    ELSE indexSourceVectorDone(s, f)

\* the catch around collection.add in addDocument: log and rethrow, which ends
\* the for loop and rejects addDocument (indexSource catches it in its turn)
addBatchCatch(s, f) ==
    indexSourceCatch(s, f)

\* collection.add of the current batch settles
AddDone(t, ok, dup) ==
    /\ t \in DOMAIN tasks
    /\ tasks[t].pc = "add"
    /\ ok \/ faults < MaxFaults
    /\ faults' = IF ok THEN faults ELSE faults + 1
    /\ LET f == tasks[t]
           batch == SeqToSet(batchOf(f.chunks, f.i))
           totalBatches == Ceil(Len(f.chunks), batchSize)
           s1 == reportProgress(svc, f, batchIndexOf(f.i), totalBatches,
                                batchEndOf(f.chunks, f.i), Len(f.chunks))
       IN  IF ok
           THEN /\ dup \in DupPolicies(collection, batch)
                /\ collection' = engineAdd(collection, batch, dup)
                /\ IF f.i + batchSize < Len(f.chunks)
                   THEN Continue(t, [svc |-> s1, alive |-> TRUE,
                                     f |-> [f EXCEPT !.pc = "delay"]], "running")
                   ELSE Continue(t, indexSourceVectorDone(s1, f), "returned")
           ELSE /\ dup = "ignore"
                /\ collection' = collection
                /\ Continue(t, addBatchCatch(svc, f), "threw")
    /\ UNCHANGED <<csvSources, indexLog>>
    /\ othersUnchanged

\* the pause between two batches is over: report and issue the next add
DelayDone(t) ==
    /\ t \in DOMAIN tasks
    /\ tasks[t].pc = "delay"
    /\ LET f == tasks[t]
           f1 == [f EXCEPT !.i = @ + batchSize, !.pc = "add"]
           totalBatches == Ceil(Len(f.chunks), batchSize)
       IN  Continue(t, [svc |-> reportProgress(svc, f1, batchIndexOf(f1.i) - 1, totalBatches,
                                                f1.i, Len(f.chunks)),
                        alive |-> TRUE, f |-> f1], "running")
    /\ UNCHANGED <<collection, csvSources, faults, indexLog>>
    /\ othersUnchanged

\* ----- scanAndIndexExistingDocs -----
\* watchSourcesDirectory starts the first scan; the interval timer, set up after
\* the first scan has returned, starts the later ones
StartScan ==
    /\ scans < MaxScans
    /\ scans = 0 \/ ~\E t \in DOMAIN tasks : tasks[t].kind = "scan" /\ tasks[t].n = 1
    /\ scans' = scans + 1
    /\ tasks' = Spawn(Frame("scan", "ls", scans + 1))
    /\ UNCHANGED <<chunkerVars, retrievalVars, adapterVars, csvSources, svc, docs, faults, edits,
                   indexLog, notifications, subscriptions>>

\* calculateTotalBatches has read every listed document
prescanFinish(s, f) ==
    scanAdvance([s EXCEPT !.totalBatches = Ceil(f.totalChunks, batchSize),
                          !.batchCalculationComplete = TRUE],
                [f EXCEPT !.idx = 1])

\* ls of the scan settles: count the documents, then calculateTotalBatches
ScanLsDone(t) ==
    /\ t \in DOMAIN tasks
    /\ tasks[t].pc = "ls"
    /\ LET f1 == [tasks[t] EXCEPT !.children = listing(docs), !.idx = 1]
           s1 == [svc EXCEPT !.totalSourcesFound = Len(f1.children)]
       IN  IF s1.batchCalculationComplete
           THEN Continue(t, scanAdvance(s1, f1), "running")
           ELSE Continue(t, [svc |-> s1, alive |-> TRUE, f |-> [f1 EXCEPT !.pc = "pre_ls"]],
                         "running")
    /\ UNCHANGED <<collection, csvSources, faults, indexLog>>
    /\ othersUnchanged

\* ls of calculateTotalBatches settles
PrescanLsDone(t) ==
    /\ t \in DOMAIN tasks
    /\ tasks[t].pc = "pre_ls"
    /\ LET f1 == [tasks[t] EXCEPT !.preChildren = listing(docs), !.preIdx = 1,
                                  !.totalChunks = 0, !.pc = "pre_read"]
       IN  IF Len(f1.preChildren) = 0
           THEN Continue(t, prescanFinish(svc, f1), "running")
           ELSE Continue(t, [svc |-> svc, alive |-> TRUE, f |-> f1], "running")
    /\ UNCHANGED <<collection, csvSources, faults, indexLog>>
    /\ othersUnchanged

\* what one document adds to totalChunks in calculateTotalBatches
prescanChunks(doc) ==
    IF ~carriesContent(doc) THEN 0
    ELSE IF sourceTypeOf(doc) \in {"text", "pdf", "web"}
         THEN IF doc.content = Undefined THEN 0 ELSE calculateChunkCount(doc.content)
    ELSE IF sourceTypeOf(doc) = "csv" THEN 1
    ELSE 0

\* readDoc of calculateTotalBatches settles for child preIdx
PrescanReadDone(t) ==
    /\ t \in DOMAIN tasks
    /\ tasks[t].pc = "pre_read"
    /\ LET f  == tasks[t]
           f1 == [f EXCEPT !.totalChunks = @ + prescanChunks(docs[f.preChildren[f.preIdx]]),
                           !.preIdx = @ + 1]
       IN  IF f1.preIdx > Len(f1.preChildren)
           THEN Continue(t, prescanFinish(svc, f1), "running")
           ELSE Continue(t, [svc |-> svc, alive |-> TRUE, f |-> f1], "running")
    /\ UNCHANGED <<collection, csvSources, faults, indexLog>>
    /\ othersUnchanged

\* ----- watchSourceDocument -----
\* listenToDoc settles: the store holds one more subscription for the path, the
\* unsubscribe handle is put in the listener map under the path (replacing a
\* handle that is there), readDoc is issued
SubscribeDone(t) ==
    /\ t \in DOMAIN tasks
    /\ tasks[t].pc = "subscribing"
    /\ subscriptions' = [subscriptions EXCEPT ![tasks[t].path] = @ + 1]
    /\ Continue(t, [svc |-> [svc EXCEPT !.listeners = @ \cup {tasks[t].path}],
                    alive |-> TRUE, f |-> [tasks[t] EXCEPT !.pc = "reading"]], "running")
    /\ UNCHANGED <<collection, csvSources, faults, indexLog>>
    /\ UNCHANGED <<chunkerVars, retrievalVars, docs, calls, edits, scans, notifications>>

\* a tracking test that looks in both indexed sets, whatever the type
isAlreadyTrackedEitherSet(s, doc, documentPath) ==
    sourceIdOf(doc, documentPath) \in s.indexedCsvSources \cup s.indexedVectorSources

\* isAlreadyTracked of watchSourceDocument
isAlreadyTracked(s, doc, documentPath) ==
    LET sourceId   == sourceIdOf(doc, documentPath)
        sourceType == sourceTypeOf(doc)
    IN  \/ sourceType = "csv" /\ sourceId \in s.indexedCsvSources
        \/ sourceType # "csv" /\ sourceId \in s.indexedVectorSources

\* readDoc of the first watch settles: index the current document unless it is
\* already tracked
ReadDone(t) ==
    /\ t \in DOMAIN tasks
    /\ tasks[t].pc = "reading"
    /\ LET f == tasks[t]
           currentDoc == docs[f.path]
       IN  IF carriesContent(currentDoc) /\ ~isAlreadyTracked(svc, currentDoc, f.path)
           THEN LET r == indexSource([svc EXCEPT !.pendingIndexing = @ \cup {f.path}],
                                     csvSources, f, currentDoc, f.path)
                IN  /\ Continue(t, r, "running")
                    /\ csvSources' = r.csv
                    /\ indexLog' = Append(indexLog, logEntry("first-watch", f, currentDoc, f.path, r))
           ELSE /\ Continue(t, returnToCaller(svc, f), "running")
                /\ UNCHANGED <<csvSources, indexLog>>
    /\ UNCHANGED <<collection, faults>>
    /\ othersUnchanged

\* ----- the listenToDoc callback -----
\* a callback that applies the first-watch guard as well
callbackShouldIndexUntracked(s, doc, documentPath) ==
    carriesContent(doc) /\ ~isAlreadyTracked(s, doc, documentPath)

\* the test the callback makes before it re-indexes
callbackShouldIndex(s, doc, documentPath) ==
    carriesContent(doc)

\* a change notification is delivered: the callback runs with payload.doc
Deliver(t) ==
    /\ t \in DOMAIN tasks
    /\ tasks[t].pc = "notify"
    /\ LET f == tasks[t]
           doc == f.doc
       IN  IF callbackShouldIndex(svc, doc, f.path)
           THEN LET r == indexSource([svc EXCEPT !.pendingIndexing = @ \cup {f.path}],
                                     csvSources, f, doc, f.path)
                IN  /\ Continue(t, r, "running")
                    /\ csvSources' = r.csv
                    /\ indexLog' = Append(indexLog, logEntry("change", f, doc, f.path, r))
           ELSE /\ Continue(t, [svc |-> svc, alive |-> FALSE, f |-> f], "running")
                /\ UNCHANGED <<csvSources, indexLog>>
    /\ UNCHANGED <<collection, faults>>
    /\ othersUnchanged

\* ----- the document store -----
\* the document at path p is replaced by d; the callback of every subscription
\* to the path is notified (at most MaxCallbacks callbacks are in flight at a
\* time)
WriteDoc(p, d) ==
    /\ edits < MaxEdits
    /\ Cardinality({t \in DOMAIN tasks : tasks[t].kind = "cb"}) < MaxCallbacks
    /\ Cardinality({t \in DOMAIN tasks : tasks[t].kind = "cb"}) + subscriptions[p] <= MaxCallbacks
    /\ d # docs[p]
    /\ edits' = edits + 1
    /\ docs' = [docs EXCEPT ![p] = d]
    /\ IF subscriptions[p] > 0
       THEN /\ notifications' = Append(notifications,
                                     [path |-> p, doc |-> d,
                                      watched |-> p \in svc.watchedPaths])
            /\ tasks' = SpawnInto(tasks, [Frame("cb", "notify", Len(notifications) + 1)
                                             EXCEPT !.path = p, !.doc = d],
                                  subscriptions[p])
       ELSE UNCHANGED <<notifications, tasks>>
    /\ UNCHANGED <<chunkerVars, retrievalVars, adapterVars, csvSources, svc, faults, scans,
                   indexLog, subscriptions>>

\* ----- direct calls on the adapter -----
\* addDocument(source, c) is called: initialize, then removeDocument issues the delete
CallAddDocument(source, c) ==
    /\ calls < MaxCalls
    /\ DOMAIN tasks = {}
    /\ calls' = calls + 1
    /\ tasks' = Spawn([Frame("direct", "delete", calls + 1)
                          EXCEPT !.source = source, !.content = c])
    /\ history' = Append(history, [op |-> "addDocument", source |-> source, content |-> c,
                                    outcome |-> "running"])
    /\ engineLog' = Append(engineLog, EngineEvent(calls + 1, "delete", "issued", <<>>))
    /\ UNCHANGED <<chunkerVars, retrievalVars, serviceVars, collection, faults>>

\* removeDocument(source.id) is called: initialize, then collection.delete is issued
CallRemoveDocument(source) ==
    /\ calls < MaxCalls
    /\ DOMAIN tasks = {}
    /\ calls' = calls + 1
    /\ tasks' = Spawn([Frame("direct", "remove", calls + 1) EXCEPT !.source = source])
    /\ history' = Append(history, [op |-> "removeDocument", source |-> source,
                                    content |-> Undefined, outcome |-> "running"])
    /\ engineLog' = Append(engineLog, EngineEvent(calls + 1, "delete", "issued", <<>>))
    /\ UNCHANGED <<chunkerVars, retrievalVars, serviceVars, collection, faults>>

\* a removeDocument that lets the engine's rejection through
removeDocumentSettlesRethrow(coll, sourceId, ok) ==
    [collection |-> IF ok THEN engineDelete(coll, sourceId) ELSE coll,
     outcome    |-> IF ok THEN "returned" ELSE "threw"]

\* removeDocument when its collection.delete settles: the catch swallows a
\* rejection, the call returns either way
removeDocumentSettles(coll, sourceId, ok) ==
    [collection |-> IF ok THEN engineDelete(coll, sourceId) ELSE coll,
     outcome    |-> "returned"]

\* collection.delete of a direct removeDocument call settles
RemoveDone(t, ok) ==
    /\ t \in DOMAIN tasks
    /\ tasks[t].pc = "remove"
    /\ ok \/ faults < MaxFaults
    /\ faults' = IF ok THEN faults ELSE faults + 1
    /\ LET r == removeDocumentSettles(collection, tasks[t].source.id, ok)
       IN  /\ collection' = r.collection
           /\ Continue(t, [svc |-> svc, alive |-> FALSE, f |-> tasks[t]], r.outcome)
    /\ UNCHANGED <<csvSources, indexLog>>
    /\ othersUnchanged

\* addCSVSource(source, csvContent) is called on the tabular index and returns
CallAddCSVSource(source, c) ==
    /\ calls < MaxCalls
    /\ DOMAIN tasks = {}
    /\ calls' = calls + 1
    /\ csvSources' = addCSVSource(csvSources, source, c)
    /\ history' = Append(history, [op |-> "addCSVSource", source |-> source, content |-> c,
                                    outcome |-> "returned"])
    /\ UNCHANGED <<chunkerVars, retrievalVars, collection, svc, docs, edits, scans, indexLog,
                   notifications, subscriptions, tasks, faults, engineLog>>

\* removeCSVSource(source.id) is called on the tabular index and returns
CallRemoveCSVSource(source) ==
    /\ calls < MaxCalls
    /\ DOMAIN tasks = {}
    /\ calls' = calls + 1
    /\ csvSources' = removeCSVSource(csvSources, source.id)
    /\ history' = Append(history, [op |-> "removeCSVSource", source |-> source,
                                    content |-> Undefined, outcome |-> "returned"])
    /\ UNCHANGED <<chunkerVars, retrievalVars, collection, svc, docs, edits, scans, indexLog,
                   notifications, subscriptions, tasks, faults, engineLog>>
\* ======================= the specifications =======================

AdapterAtRest ==
    /\ collection = {}
    /\ calls = 0
    /\ history = <<>>
    /\ engineLog = <<>>

ServiceAtRest ==
    /\ csvSources = <<>>
    /\ svc = NewIndexingService
    /\ docs = [p \in Paths |-> NoDoc]
    /\ edits = 0
    /\ scans = 0
    /\ indexLog = <<>>
    /\ notifications = <<>>
    /\ subscriptions = [p \in Paths |-> 0]

ChunkerAtRest ==
    /\ content = <<>>
    /\ maxSize = maxChunkSize
    /\ ovl = overlap
    /\ cd = chunkDocumentEntry(<<>>)
    /\ cc = calculateChunkCountEntry(<<>>)
    /\ covered = {}

\* no retrieval call is running and nothing is cached on the UI side
NoRag == [pc |-> "idle"]

\* no smartQuery has been called yet
NoQuery == [pc |-> "idle"]

RetrievalAtRest ==
    /\ csvCache = <<>>
    /\ rag = NoRag
    /\ queryResult = NoQuery
\* ----- the chunker specification -----
Strings(n) == UNION {[1..k -> Alphabet] : k \in 0..n}

\* the window parameters: the ones compiled into the worker, and small ones
ChunkParams == {<<maxChunkSize, overlap>>}
                 \cup ((1..MaxSmallSize) \X (0..MaxSmallOverlap))

ChunkerSource == [id |-> "s1", type |-> "text"]

\* contents long enough for the compiled-in window: one sentence end placed
\* just before, at and just after 70% of maxChunkSize, then a tail
Rep(ch, n) == [i \in 1..n |-> ch]
LongContents ==
    {Rep("a", n) \o <<".", " ">> \o Rep("a", m) : n \in {559, 560, 561}, m \in {238, 300}}

\* three short sentences, chunked with a window of 20 and an overlap of 5:
\* "Sentence one. Sentence two. Sentence three."
SentenceContent ==
    <<"S", "e", "n", "t", "e", "n", "c", "e", " ", "o", "n", "e", ".", " ", "S", "e",
      "n", "t", "e", "n", "c", "e", " ", "t", "w", "o", ".", " ", "S", "e", "n", "t",
      "e", "n", "c", "e", " ", "t", "h", "r", "e", "e", ".">>
SentenceParams == <<20, 5>>

InitChunker ==
    /\ \/ /\ content \in Strings(MaxContentLen)
          /\ \E p \in ChunkParams : maxSize = p[1] /\ ovl = p[2]
       \/ /\ content \in LongContents
          /\ maxSize = maxChunkSize /\ ovl = overlap
       \/ /\ content = SentenceContent
          /\ maxSize = SentenceParams[1] /\ ovl = SentenceParams[2]
    /\ cd = chunkDocumentEntry(content)
    /\ cc = [startIndex |-> 0, chunkCount |-> 0, pc |-> "idle"]
    /\ covered = {}
    /\ AdapterAtRest
    /\ ServiceAtRest
    /\ RetrievalAtRest
    /\ tasks = <<>>
    /\ faults = 0

ChunkDocumentStep ==
    /\ cd.pc = "loop"
    /\ cd' = chunkDocumentIter(content, ChunkerSource, maxSize, ovl, cd)
    /\ covered' = covered \cup (cd'.windowStart .. (cd'.actualEndIndex - 1))
    /\ UNCHANGED <<content, maxSize, ovl, cc, adapterVars, serviceVars,
                   retrievalVars, tasks, faults>>

CalculateChunkCountCall ==
    /\ cd.pc = "done"
    /\ cc.pc = "idle"
    /\ cc' = calculateChunkCountEntry(content)
    /\ UNCHANGED <<content, maxSize, ovl, cd, covered, adapterVars, serviceVars,
                   retrievalVars, tasks, faults>>

CalculateChunkCountStep ==
    /\ cc.pc = "loop"
    /\ cc' = calculateChunkCountIter(content, maxSize, ovl, cc)
    /\ UNCHANGED <<content, maxSize, ovl, cd, covered, adapterVars, serviceVars,
                   retrievalVars, tasks, faults>>

NextChunker ==
    \/ ChunkDocumentStep
    \/ CalculateChunkCountCall
    \/ CalculateChunkCountStep

SpecChunker == InitChunker /\ [][NextChunker]_vars


\* ----- the vector index adapter called directly -----
CsvText == <<"h", "\n", "1">>
DirectSources == {[id |-> <<"id", "s1">>, type |-> "text"],
                  [id |-> <<"id", "s2">>, type |-> "pdf"]}
DirectContents == {<<>>, <<" ">>, <<"a">>, <<"a", "b">>, Rep("a", batchSize + 1)}

InitAdapter ==
    /\ ChunkerAtRest
    /\ AdapterAtRest
    /\ RetrievalAtRest
    /\ ServiceAtRest
    /\ tasks = <<>>
    /\ faults = 0

NextAdapter ==
    \/ \E source \in DirectSources, c \in DirectContents : CallAddDocument(source, c)
    \/ \E t \in 1..MaxTasks, ok \in BOOLEAN : DeleteDone(t, ok)
    \/ \E t \in 1..MaxTasks, ok \in BOOLEAN, dup \in {"ignore", "overwrite"} : AddDone(t, ok, dup)
    \/ \E t \in 1..MaxTasks : DelayDone(t)

SpecAdapter == InitAdapter /\ [][NextAdapter]_vars

\* ----- additions to and removals from the two indexes, called directly -----
NextRemoval ==
    \/ \E source \in DirectSources : CallAddDocument(source, <<"a">>)
    \/ \E t \in 1..MaxTasks, ok \in BOOLEAN : DeleteDone(t, ok)
    \/ \E t \in 1..MaxTasks, ok \in BOOLEAN, dup \in {"ignore", "overwrite"} : AddDone(t, ok, dup)
    \/ \E source \in DirectSources : CallRemoveDocument(source)
    \/ \E t \in 1..MaxTasks, ok \in BOOLEAN : RemoveDone(t, ok)
    \/ \E source \in DirectSources : CallAddCSVSource(source, CsvText)
    \/ \E source \in DirectSources : CallRemoveCSVSource(source)

SpecRemoval == InitAdapter /\ [][NextRemoval]_vars

\* ----- the indexing service watching the document store -----
Doc(id, type, c, raw) == [id |-> id, type |-> type, content |-> c, rawCsvContent |-> raw]

TextContents == {<<>>, <<"a">>, <<"b">>}

\* the documents the first path may hold at start: every type, with and without
\* an id of its own, csv with and without rawCsvContent, and a text document
\* that has only rawCsvContent
InitDocs1 ==
    {NoDoc}
      \cup {Doc(id, type, <<"a">>, Undefined) :
               id \in {NoId, <<"id", "s1">>}, type \in {"text", "pdf", "web", "ai", "none"}}
      \cup {Doc(id, "csv", <<"a">>, raw) : id \in {NoId, <<"id", "s1">>}, raw \in {Undefined, CsvText}}
      \cup {Doc(NoId, "text", Undefined, CsvText), Doc(NoId, "csv", Undefined, CsvText)}

\* the documents the second path may hold at start
InitDocs2 ==
    {NoDoc, Doc(NoId, "text", <<"a">>, Undefined), Doc(<<"id", "s1">>, "text", <<"a">>, Undefined),
     Doc(<<"id", "s1">>, "csv", <<"a">>, CsvText)}

Init ==
    /\ ChunkerAtRest
    /\ AdapterAtRest
    /\ RetrievalAtRest
    /\ csvSources = <<>>
    /\ svc = NewIndexingService
    /\ docs \in {d \in [Paths -> InitDocs1 \cup InitDocs2] : d["d2"] \in InitDocs2}
    /\ edits = 0
    /\ scans = 0
    /\ indexLog = <<>>
    /\ notifications = <<>>
    /\ subscriptions = [p \in Paths |-> 0]
    /\ tasks = <<>>
    /\ faults = 0

\* the UI layer saves new content for a source document
EditContent ==
    \E p \in Paths, c \in TextContents :
        /\ docs[p] # NoDoc
        /\ WriteDoc(p, [docs[p] EXCEPT !.content = c])

\* the documents of this specification fit in one batch each, so an addDocument
\* call never waits between two batches here (DelayDone is a step of SpecAdapter)
Next ==
    \/ StartScan
    \/ \E t \in 1..MaxTasks : ScanLsDone(t)
    \/ \E t \in 1..MaxTasks : PrescanLsDone(t)
    \/ \E t \in 1..MaxTasks : PrescanReadDone(t)
    \/ \E t \in 1..MaxTasks : SubscribeDone(t)
    \/ \E t \in 1..MaxTasks : ReadDone(t)
    \/ \E t \in 1..MaxTasks : Deliver(t)
    \/ \E t \in 1..MaxTasks, ok \in BOOLEAN : DeleteDone(t, ok)
    \/ \E t \in 1..MaxTasks, ok \in BOOLEAN, dup \in {"ignore", "overwrite"} : AddDone(t, ok, dup)
    \/ EditContent

Spec == Init /\ [][Next]_vars


\* ======================= the tabular queries =======================

\* ----- string primitives of the query code -----
\* the capital letters that occur in the queries and cells of this model
UpperToLower == ("A" :> "a") @@ ("Z" :> "z")

\* String.prototype.toLowerCase
toLowerCase(s) ==
    [k \in 1..Len(s) |-> IF s[k] \in DOMAIN UpperToLower THEN UpperToLower[s[k]] ELSE s[k]]

\* String.prototype.includes
includes(s, t) ==
    \E k \in 0..(Len(s) - Len(t)) : SubSeq(s, k + 1, k + Len(t)) = t

\* String.prototype.split(/\s+/): a run of white space separates two pieces; a
\* string that starts or ends with white space has an empty first or last piece
RECURSIVE splitWhitespaceFrom(_, _, _, _)
splitWhitespaceFrom(s, i, current, result) ==
    IF i > Len(s) THEN Append(result, current)
    ELSE IF IsSpace(s[i])
         THEN IF i > 1 /\ IsSpace(s[i - 1])
              THEN splitWhitespaceFrom(s, i + 1, current, result)
              ELSE splitWhitespaceFrom(s, i + 1, <<>>, Append(result, current))
    ELSE splitWhitespaceFrom(s, i + 1, Append(current, s[i]), result)

splitWhitespace(s) == splitWhitespaceFrom(s, 1, <<>>, <<>>)

\* Array.prototype.join(sep)
RECURSIVE join(_, _)
join(pieces, sep) ==
    IF Len(pieces) = 0 THEN <<>>
    ELSE IF Len(pieces) = 1 THEN pieces[1]
    ELSE pieces[1] \o sep \o join(Tail(pieces), sep)

\* results.sort((a, b) => b.matchCount - a.matchCount): a stable sort, larger
\* matchCount first
RECURSIVE insertByMatchCount(_, _)
insertByMatchCount(sorted, r) ==
    IF Len(sorted) = 0 THEN <<r>>
    ELSE IF Head(sorted).matchCount >= r.matchCount
         THEN <<Head(sorted)>> \o insertByMatchCount(Tail(sorted), r)
    ELSE <<r>> \o sorted

RECURSIVE sortByMatchCount(_)
sortByMatchCount(results) ==
    IF Len(results) = 0 THEN <<>>
    ELSE insertByMatchCount(sortByMatchCount(SubSeq(results, 1, Len(results) - 1)),
                            results[Len(results)])

\* ----- the indexing worker's CSVQueryService -----
StopWords == {<<"t", "h", "e">>, <<"a", "n", "d">>, <<"o", "r">>, <<"b", "u", "t">>,
              <<"i", "n">>, <<"o", "n">>, <<"a", "t">>, <<"t", "o">>, <<"f", "o", "r">>,
              <<"o", "f">>, <<"w", "i", "t", "h">>, <<"b", "y">>}

extractSearchTerms(query) ==
    LET keep(term) == Len(term) > 2 /\ term \notin StopWords
    IN  SelectSeq(splitWhitespace(toLowerCase(query)), keep)

\* Object.values(row) of a row built by parseCSV: one value per distinct header,
\* in the order of the headers' first occurrence
RECURSIVE distinctHeaders(_, _)
distinctHeaders(headers, seen) ==
    IF Len(headers) = 0 THEN <<>>
    ELSE IF Head(headers) \in seen THEN distinctHeaders(Tail(headers), seen)
    ELSE <<Head(headers)>> \o distinctHeaders(Tail(headers), seen \cup {Head(headers)})

workerRowText(csvData, row) ==
    LET keys == distinctHeaders(csvData.headers, {})
    IN  toLowerCase(join([k \in 1..Len(keys) |-> row[keys[k]]], <<" ">>))

findMatchingRows(csvData, searchTerms) ==
    LET hit(row) == \E k \in 1..Len(searchTerms) :
                        includes(workerRowText(csvData, row), searchTerms[k])
    IN  SelectSeq(csvData.rows, hit)

\* the results the for loop of smartQuery pushes, for the sources in Map order
RECURSIVE workerResults(_, _, _)
workerResults(entries, searchTerms, maxResults) ==
    IF Len(entries) = 0 THEN <<>>
    ELSE LET csvData      == Head(entries)
             matchingRows == findMatchingRows(csvData, searchTerms)
             rest         == workerResults(Tail(entries), searchTerms, maxResults)
         IN  IF Len(matchingRows) > 0
             THEN <<[sourceId     |-> csvData.sourceId,
                     matchingRows |-> slice(matchingRows, 0, maxResults),
                     matchCount   |-> Len(matchingRows)]>> \o rest
             ELSE rest

\* smartQuery(query, maxResults) of the worker
workerSmartQuery(entries, query, maxResults) ==
    slice(sortByMatchCount(workerResults(entries, extractSearchTerms(query), maxResults)),
          0, maxResults)

\* ----- the UI side's CSVQueryService (the one RAGService imports) -----
\* a cache entry is [sourceId, title, rows]: csvCache and sourceMetadata of one
\* source id; a row is a list of cells [key, value], in the order of Object.entries

\* getSourceTitle(sourceId): metadata?.title || `CSV Source ${sourceId}`
getSourceTitle(csvData) ==
    IF Len(csvData.title) > 0 THEN csvData.title
    ELSE <<"CSV Source", " ">> \o <<csvData.sourceId[2]>>

uiRowText(row) ==
    toLowerCase(join([k \in 1..Len(row) |-> row[k].value], <<" ">>))

\* the for loop over csvData.rows in queryCSV from row k on: push a row in which
\* every term occurs, stop once maxResults rows are pushed
RECURSIVE uiMatchingRows(_, _, _, _, _)
uiMatchingRows(rows, k, searchTerms, maxResults, matchingRows) ==
    IF k > Len(rows) THEN matchingRows
    ELSE LET matchesAll == \A j \in 1..Len(searchTerms) :
                               includes(uiRowText(rows[k]), searchTerms[j])
             pushed == IF matchesAll THEN Append(matchingRows, rows[k]) ELSE matchingRows
         IN  IF Len(pushed) >= maxResults THEN pushed
             ELSE uiMatchingRows(rows, k + 1, searchTerms, maxResults, pushed)

RECURSIVE uiTextResults(_, _, _)
uiTextResults(cache, searchTerms, maxResults) ==
    IF Len(cache) = 0 THEN <<>>
    ELSE LET csvData      == Head(cache)
             matchingRows == uiMatchingRows(csvData.rows, 1, searchTerms, maxResults, <<>>)
             rest         == uiTextResults(Tail(cache), searchTerms, maxResults)
         IN  IF Len(matchingRows) > 0
             THEN <<[sourceId     |-> csvData.sourceId,
                     title        |-> getSourceTitle(csvData),
                     matchingRows |-> matchingRows,
                     totalRows    |-> Len(csvData.rows),
                     matchCount   |-> Len(matchingRows)]>> \o rest
             ELSE rest

queryCSV(cache, query, maxResults) ==
    sortByMatchCount(uiTextResults(cache, splitWhitespace(toLowerCase(query)), maxResults))

\* query.match(/(\w+)\s+(contains?|equals?|is)\s+([^,]+)/i) on a query made of
\* words of letters separated by white space: the leftmost word that is followed
\* by one of the five operator words and by something more is the column, the
\* rest of the query is the value
OperatorWords == {<<"c", "o", "n", "t", "a", "i", "n">>, <<"c", "o", "n", "t", "a", "i", "n", "s">>,
                  <<"e", "q", "u", "a", "l">>, <<"e", "q", "u", "a", "l", "s">>, <<"i", "s">>}

columnMatch(query) ==
    LET words == SelectSeq(splitWhitespace(query), LAMBDA w : Len(w) > 0)
        at    == {i \in 1..(Len(words) - 2) : toLowerCase(words[i + 1]) \in OperatorWords}
    IN  IF at = {} THEN [matched |-> FALSE]
        ELSE [matched |-> TRUE,
              column  |-> words[SetMin(at)],
              value   |-> join(SubSeq(words, SetMin(at) + 2, Len(words)), <<" ">>)]

\* the property names every row object inherits from Object.prototype, with a
\* function as value, that the model's queries use
InheritedProperties == {<<"c", "o", "n", "s", "t", "r", "u", "c", "t", "o", "r">>}

\* row[column]: the cell's string, a function inherited from Object.prototype,
\* or undefined
propertyOf(row, column) ==
    LET own == {k \in 1..Len(row) : row[k].key = column}
    IN  IF own # {} THEN [kind |-> "string", value |-> row[SetMax(own)].value]
        ELSE IF column \in InheritedProperties THEN [kind |-> "function"]
        ELSE [kind |-> "undefined"]

\* the for loop over csvData.rows in queryColumns from row k on;
\* `row[column]?.toLowerCase()` throws a TypeError when row[column] is a function
RECURSIVE uiColumnRows(_, _, _, _, _, _)
uiColumnRows(rows, k, column, searchValue, maxResults, matchingRows) ==
    IF k > Len(rows) THEN [threw |-> FALSE, rows |-> matchingRows]
    ELSE LET prop == propertyOf(rows[k], column)
         IN  IF prop.kind = "function" THEN [threw |-> TRUE, rows |-> matchingRows]
             ELSE LET columnValue == IF prop.kind = "string" THEN toLowerCase(prop.value)
                                     ELSE <<>>
                      matches == includes(columnValue, toLowerCase(searchValue))
                      pushed  == IF matches THEN Append(matchingRows, rows[k])
                                 ELSE matchingRows
                  IN  IF Len(pushed) >= maxResults THEN [threw |-> FALSE, rows |-> pushed]
                      ELSE uiColumnRows(rows, k + 1, column, searchValue, maxResults, pushed)

RECURSIVE uiColumnResults(_, _, _, _)
uiColumnResults(cache, column, searchValue, maxResults) ==
    IF Len(cache) = 0 THEN [threw |-> FALSE, results |-> <<>>]
    ELSE LET csvData == Head(cache)
             found   == uiColumnRows(csvData.rows, 1, column, searchValue, maxResults, <<>>)
         IN  IF found.threw THEN [threw |-> TRUE, results |-> <<>>]
             ELSE LET rest == uiColumnResults(Tail(cache), column, searchValue, maxResults)
                  IN  IF rest.threw THEN rest
                      ELSE IF Len(found.rows) > 0
                           THEN [threw   |-> FALSE,
                                 results |-> <<[sourceId     |-> csvData.sourceId,
                                                title        |-> getSourceTitle(csvData),
                                                matchingRows |-> found.rows,
                                                totalRows    |-> Len(csvData.rows),
                                                matchCount   |-> Len(found.rows)]>>
                                             \o rest.results]
                           ELSE rest

queryColumns(cache, column, searchValue, maxResults) ==
    LET found == uiColumnResults(cache, column, searchValue, maxResults)
    IN  [threw |-> found.threw, results |-> sortByMatchCount(found.results)]

\* smartQuery(query, maxResults) of the UI side: the text results, to which the
\* column results of sources not yet listed are appended
uiSmartQuery(cache, query, maxResults) ==
    LET textResults == queryCSV(cache, query, maxResults)
        m           == columnMatch(query)
    IN  IF ~m.matched THEN [threw |-> FALSE, results |-> textResults]
        ELSE LET columnResults == queryColumns(cache, m.column, m.value, maxResults)
                 fresh(r) == \A k \in 1..Len(textResults) : textResults[k].sourceId # r.sourceId
             IN  IF columnResults.threw THEN [threw |-> TRUE, results |-> <<>>]
                 ELSE [threw   |-> FALSE,
                       results |-> sortByMatchCount(textResults
                                                    \o SelectSeq(columnResults.results, fresh))]

\* ----- RAGService -----
\* A string the service builds is a sequence of pieces: a character, or a run
\* of a template's literal text that neither starts nor ends with white space.

\* formatCsvSummary(csvResult); "*" stands for the bullet character of the source
formatCsvSummary(csvResult) ==
    LET exampleRows == slice(csvResult.matchingRows, 0, 2)
        rowText(row) ==
            LET cells == SelectSeq(row, LAMBDA c : Len(c.value) > 0)
            IN  join([k \in 1..Len(cells) |-> cells[k].key \o <<":", " ">> \o cells[k].value],
                     <<",", " ">>)
        lines == [k \in 1..Len(exampleRows) |-> <<"*", " ">> \o rowText(exampleRows[k]) \o <<"\n">>]
        more  == IF Len(csvResult.matchingRows) > 2
                 THEN <<"... and", " ", ToString(Len(csvResult.matchingRows) - 2), " ",
                        "more rows">>
                 ELSE <<>>
    IN  <<"Found", " ", ToString(csvResult.matchCount), " ", "relevant rows:", "\n">>
        \o join(lines, <<>>) \o more

\* a buildCombinedContext that returns an empty context as it is
buildCombinedContextBare(textResults, csvSummaries) ==
    <<>>

\* buildCombinedContext(textResults, csvSources)
buildCombinedContext(textResults, csvSummaries) ==
    LET textPart ==
            IF Len(textResults) > 0
            THEN <<"RELEVANT TEXT SOURCES:", "\n", "\n">>
                 \o join([k \in 1..Len(textResults) |->
                             <<"Source", " ", ToString(k), " ", "-", " ">>
                             \o textResults[k].metadata.title
                             \o <<" ", "(", textResults[k].metadata.sourceType, "):", "\n">>
                             \o textResults[k].content \o <<"\n", "\n">>], <<>>)
            ELSE <<>>
        csvPart ==
            IF Len(csvSummaries) > 0
            THEN <<"RELEVANT CSV DATA:", "\n", "\n">>
                 \o join([k \in 1..Len(csvSummaries) |->
                             <<"CSV", " ", ToString(k), " ", "-", " ">>
                             \o csvSummaries[k].title \o <<":", "\n">>
                             \o csvSummaries[k].summary \o <<"\n", "\n">>], <<>>)
            ELSE <<>>
        context == textPart \o csvPart
    IN  IF context = <<>> THEN <<"No relevant sources found for this query.">>
        ELSE trim(context)

\* queryRelevantSources from the point where textResults is known: the tabular
\* query, the summaries, the combined context
queryRelevantSourcesRest(cache, query, options, textResults) ==
    LET csvQuery   == IF options.csvQuery = Undefined THEN query ELSE options.csvQuery
        csvResults == IF options.includeCsv
                      THEN uiSmartQuery(cache, csvQuery, options.maxCsvResults)
                      ELSE [threw |-> FALSE, results |-> <<>>]
        csvSummaries == [k \in 1..Len(csvResults.results) |->
                            [sourceId   |-> csvResults.results[k].sourceId,
                             title      |-> csvResults.results[k].title,
                             summary    |-> formatCsvSummary(csvResults.results[k]),
                             matchCount |-> csvResults.results[k].matchCount]]
    IN  IF csvResults.threw
        THEN [pc |-> "threw", query |-> query, options |-> options,
              textSources |-> textResults]
        ELSE [pc |-> "returned", query |-> query, options |-> options,
              textSources     |-> textResults,
              csvSources      |-> csvSummaries,
              combinedContext |-> buildCombinedContext(textResults, csvSummaries)]

\* queryAIWorkerVectorSearch: what it returns for each way the fetch can end
FetchOutcomes == {"results", "noResultsField", "notOk", "badJson", "networkError"}

queryAIWorkerVectorSearch(outcome, hits) ==
    IF outcome = "results" THEN hits ELSE <<>>

\* ----- the calls -----
\* No call changes a cache, so a call does not depend on the calls before it:
\* a behaviour is one call, made on any of the caches of the initial states.
queryOthersUnchanged ==
    UNCHANGED <<chunkerVars, adapterVars, serviceVars, tasks, faults, csvCache>>

\* queryRelevantSources(query, options) is called: up to the fetch when text is
\* included, to its end when it is not
QueryRelevantSources(query, options) ==
    /\ rag = NoRag /\ queryResult = NoQuery
    /\ rag' = IF options.includeText
              THEN [pc |-> "fetch", query |-> query, options |-> options]
              ELSE queryRelevantSourcesRest(csvCache, query, options, <<>>)
                       @@ [fetch |-> "none"]
    /\ UNCHANGED queryResult
    /\ queryOthersUnchanged

\* the fetch of queryAIWorkerVectorSearch ends; the call runs to its end
FetchDone(outcome, hits) ==
    /\ rag.pc = "fetch"
    /\ rag' = queryRelevantSourcesRest(csvCache, rag.query, rag.options,
                                       queryAIWorkerVectorSearch(outcome, hits))
                  @@ [fetch |-> outcome]
    /\ UNCHANGED queryResult
    /\ queryOthersUnchanged

\* smartQuery(query, maxResults) is called on the UI side's CSVQueryService
UiSmartQuery(query, maxResults) ==
    /\ rag = NoRag /\ queryResult = NoQuery
    /\ LET r == uiSmartQuery(csvCache, query, maxResults)
       IN  queryResult' = [pc |-> IF r.threw THEN "threw" ELSE "returned", impl |-> "ui",
                           query |-> query, maxResults |-> maxResults,
                           results |-> r.results]
    /\ UNCHANGED rag
    /\ queryOthersUnchanged

\* the orders in which a Map with these keys can list them
Orders(S) == {ord \in [1..Cardinality(S) -> S] : \A i, j \in DOMAIN ord : i # j => ord[i] # ord[j]}

\* smartQuery(query, maxResults) is called on the worker's CSVQueryService
WorkerSmartQuery(query, maxResults) ==
    /\ rag = NoRag /\ queryResult = NoQuery
    /\ \E ord \in Orders(DOMAIN csvSources) :
           queryResult' = [pc |-> "returned", impl |-> "worker",
                           query |-> query, maxResults |-> maxResults,
                           results |-> workerSmartQuery([k \in DOMAIN ord |-> csvSources[ord[k]]],
                                                        query, maxResults)]
    /\ UNCHANGED rag
    /\ queryOthersUnchanged

\* ----- the specification of the queries -----
Cell(k, v) == [key |-> k, value |-> v]
Ada  == <<"A", "d", "a">>
Adam == <<"a", "d", "a", "m">>
Bob  == <<"b", "o", "b">>
Zzz  == <<"z", "z", "z">>

\* the UI side's caches: none, one source, two sources (the second without a
\* title and with more matching rows than the first)
CacheEntry1 == [sourceId |-> <<"id", "s1">>, title |-> <<"T">>,
                rows |-> << <<Cell(<<"n">>, Ada), Cell(<<"m">>, <<>>)>>,
                            <<Cell(<<"n">>, Bob), Cell(<<"m">>, Zzz)>> >>]
CacheEntry2 == [sourceId |-> <<"id", "s2">>, title |-> <<>>,
                rows |-> << <<Cell(<<"n">>, Adam)>>, <<Cell(<<"n">>, Ada)>>,
                            <<Cell(<<"n">>, Ada \o <<" ">> \o Bob)>> >>]
UiCaches == {<<>>, <<CacheEntry1>>, <<CacheEntry1, CacheEntry2>>}

\* the worker's sources: none, one, two
WorkerCsv1 == <<"n", ",", "m", "\n">> \o Ada \o <<",", "\n">> \o Bob \o <<",">> \o Zzz
WorkerCsv2 == <<"n", "\n">> \o Adam \o <<"\n">> \o Ada \o <<"\n">> \o Ada \o <<" ">> \o Bob
WorkerSources ==
    LET one == addCSVSource(<<>>, [id |-> <<"id", "s1">>, type |-> "csv"], WorkerCsv1)
    IN  {<<>>, one, addCSVSource(one, [id |-> <<"id", "s2">>, type |-> "csv"], WorkerCsv2)}

Queries == {<<"a", "d", "a">>,
            <<"A", "D", "A", " ", "z", "z", "z">>,
            <<"q", "q", "q">>,
            <<"b", "o", "b", " ", "o", "r", " ", "a", "d">>,
            <<"n", " ", "i", "s", " ", "b", "o", "b">>,
            <<"c", "o", "n", "s", "t", "r", "u", "c", "t", "o", "r", " ", "i", "s", " ", "x">>}

QueryOptions == [includeText : BOOLEAN, includeCsv : BOOLEAN, maxTextResults : {5},
                 maxCsvResults : {1, 3}, csvQuery : {Undefined, <<"q", "q", "q">>}]

Hit(sourceId, type, title, c) ==
    [content |-> c, score |-> 1,
     metadata |-> [sourceId |-> sourceId, sourceType |-> type, chunkIndex |-> 0, title |-> title]]
TextHits == {<<>>,
             <<Hit(<<"id", "s3">>, "text", <<"U">>, <<"a">>)>>,
             <<Hit(<<"id", "s3">>, "text", <<"U">>, <<"a">>),
               Hit(<<"id", "s4">>, "pdf", <<"V">>, <<"b", " ">>)>>}

InitQuery ==
    /\ ChunkerAtRest
    /\ AdapterAtRest
    /\ svc = NewIndexingService
    /\ docs = [p \in Paths |-> NoDoc]
    /\ edits = 0
    /\ scans = 0
    /\ indexLog = <<>>
    /\ notifications = <<>>
    /\ subscriptions = [p \in Paths |-> 0]
    /\ tasks = <<>>
    /\ faults = 0
    /\ csvSources \in WorkerSources
    /\ csvCache \in UiCaches
    /\ rag = NoRag
    /\ queryResult = NoQuery

NextQuery ==
    \/ \E query \in Queries, options \in QueryOptions : QueryRelevantSources(query, options)
    \/ \E outcome \in FetchOutcomes, hits \in TextHits : FetchDone(outcome, hits)
    \/ \E query \in Queries, maxResults \in {1, 2} : UiSmartQuery(query, maxResults)
    \/ \E query \in Queries, maxResults \in {1, 2} : WorkerSmartQuery(query, maxResults)

SpecQuery == InitQuery /\ [][NextQuery]_vars

\* ======================= the life cycle of source documents =======================
\* ----- failures of the document store inside watchSourceDocument -----
\* listenToDoc or readDoc rejects: the catch of watchSourceDocument logs the
\* error and the call returns. When listenToDoc rejected, no handle was put in
\* the listener map; when readDoc rejected, the listener registered just before
\* stays registered
WatchFailed(t) ==
    /\ t \in DOMAIN tasks
    /\ tasks[t].pc \in {"subscribing", "reading"}
    /\ faults < MaxFaults
    /\ faults' = faults + 1
    /\ Continue(t, returnToCaller(svc, tasks[t]), "running")
    /\ UNCHANGED <<collection, csvSources, indexLog>>
    /\ othersUnchanged

\* ----- getStats -----
\* the progress part of the status snapshot; recentActivity says whether
\* lastIndexingActivity lies within the last 10 s
getStats(s, recentActivity) ==
    LET vectorSourceCount == Cardinality(s.indexedVectorSources)
        csvSourceCount    == Cardinality(s.indexedCsvSources)
        totalIndexed      == vectorSourceCount + csvSourceCount
        totalDiscovered   == s.totalSourcesFound
        pendingCount      == totalDiscovered - totalIndexed
    IN  [pendingCount |-> pendingCount,
         indexedCount |-> totalIndexed,
         totalDiscovered |-> totalDiscovered,
         isIndexing |-> pendingCount > 0 \/ recentActivity,
         totalBatches |-> s.totalBatches,
         processedBatches |-> s.processedBatches,
         pendingBatches |-> Max(0, s.totalBatches - s.processedBatches),
         currentBatchProgress |-> s.currentBatchProgress]

\* ----- the document store: documents come, change identity and go -----
\* the documents the UI layer's dialogs write: a text document, and a CSV
\* document with a formatted content and the file's text as rawCsvContent
NewDocs == {Doc(NoId, "text", <<"a">>, Undefined), Doc(NoId, "csv", <<"a">>, WorkerCsv1)}

\* a write to the store: a source document is created, removed, or saved with
\* another id or another metadata.type
SaveDoc ==
    \E p \in Paths, id \in {NoId, <<"id", "s1">>}, type \in {"text", "csv", "gone"} :
        IF type = "gone"
        THEN id = NoId /\ docs[p] # NoDoc /\ WriteDoc(p, NoDoc)
        ELSE IF docs[p] = NoDoc
        THEN \E d \in NewDocs : id = d.id /\ type = d.type /\ WriteDoc(p, d)
        ELSE WriteDoc(p, [docs[p] EXCEPT !.id = id, !.type = type])

\* the interval timer goes on firing: a rescan starts, whether or not the one
\* before it has returned
StartLongScan ==
    /\ scans >= 1
    /\ scans < MaxLongScans
    /\ ~\E t \in DOMAIN tasks : tasks[t].kind = "scan" /\ tasks[t].n = 1
    /\ scans' = scans + 1
    /\ tasks' = Spawn(Frame("scan", "ls", scans + 1))
    /\ UNCHANGED <<chunkerVars, retrievalVars, adapterVars, csvSources, svc, docs, faults, edits,
                   indexLog, notifications, subscriptions>>

\* the store at the start: each path free or holding a document of the UI layer
InitLifecycle ==
    /\ ChunkerAtRest
    /\ AdapterAtRest
    /\ RetrievalAtRest
    /\ csvSources = <<>>
    /\ svc = NewIndexingService
    /\ docs \in [Paths -> {NoDoc} \cup NewDocs]
    /\ edits = 0
    /\ scans = 0
    /\ indexLog = <<>>
    /\ notifications = <<>>
    /\ subscriptions = [p \in Paths |-> 0]
    /\ tasks = <<>>
    /\ faults = 0

\* ----- from the watch loop to retrieval -----
\* in the UI process queryRelevantSources("ada", {includeText: false}) is
\* called once the worker's watch loop has indexed a CSV source; without the
\* vector search the call runs to its end without a fetch
QueryAfterIndexing ==
    /\ svc.indexedCsvSources # {}
    /\ QueryRelevantSources(<<"a", "d", "a">>,
                            [includeText |-> FALSE, includeCsv |-> TRUE, maxTextResults |-> 5,
                             maxCsvResults |-> 3, csvQuery |-> Undefined])

\* the watch loop with its interval timer, a store that can fail, an engine
\* that does not, and the Retrieval Merger of the UI process
NextLifecycle ==
    \/ StartScan
    \/ StartLongScan
    \/ \E t \in 1..MaxTasks : ScanLsDone(t)
    \/ \E t \in 1..MaxTasks : PrescanLsDone(t)
    \/ \E t \in 1..MaxTasks : PrescanReadDone(t)
    \/ \E t \in 1..MaxTasks : SubscribeDone(t)
    \/ \E t \in 1..MaxTasks : WatchFailed(t)
    \/ \E t \in 1..MaxTasks : ReadDone(t)
    \/ \E t \in 1..MaxTasks : Deliver(t)
    \/ \E t \in 1..MaxTasks : DeleteDone(t, TRUE)
    \/ \E t \in 1..MaxTasks, dup \in {"ignore", "overwrite"} : AddDone(t, TRUE, dup)
    \/ SaveDoc
    \/ QueryAfterIndexing

SpecLifecycle == InitLifecycle /\ [][NextLifecycle]_vars
\* ======================= claims about the chunker =======================

\* C2 - Chunk count agreement: when both walks over the same content have
\* finished, the number returned by calculateChunkCount equals the number of
\* chunks chunkDocument produced.
ChunkCountAgreement ==
    (cd.pc = "done" /\ cc.pc = "done") => cc.chunkCount = Len(cd.chunks)

\* C2 witness: both walks finished on a content that needed a sentence-boundary
\* cut, dropped an all-whitespace window and still produced several chunks.
ChunkCountAgreementWitness ==
    /\ cd.pc = "done" /\ cc.pc = "done"
    /\ Len(content) > maxSize
    /\ cd.iterations > Len(cd.chunks)
    /\ cc.chunkCount >= 2

\* C3 (as claimed) - Short content yields one chunk: with the compiled-in
\* window, a content that is non-empty after trimming and no longer than maxSize
\* gives exactly one chunk, and calculateChunkCount returns 1.
ShortContentOneChunk ==
    (/\ cd.pc = "done" /\ cc.pc = "done"
     /\ maxSize = maxChunkSize /\ ovl = overlap
     /\ Len(trim(content)) > 0
     /\ Len(content) <= maxSize)
        => (Len(cd.chunks) = 1 /\ cc.chunkCount = 1)

\* C4 - Chunker termination: every iteration of the chunking loop strictly
\* increases the window start, for every maxSize >= 1 and overlap >= 0, and the
\* loop never runs more than length(content) iterations.
ChunkerTermination ==
    [][/\ cd'.startIndex > cd.startIndex
       /\ cd'.iterations <= Len(content)]_cd

\* C4 witness: the loop has iterated more than once with an overlap at least as
\* large as the window.
ChunkerTerminationWitness ==
    /\ cd.iterations >= 2
    /\ ovl >= maxSize
    /\ cd.pc = "done"

\* C5 - Chunk coverage: with the compiled-in window parameters (and with any
\* maxSize >= 2 and overlap >= 1) the first window starts at 0, every next
\* window starts at or before the end of the previous one, the last window ends
\* at length(content), and every character position lies in some window.
ChunkCoverage ==
    (maxSize >= 2 /\ ovl >= 1) =>
        /\ cd.iterations = 1 => cd.windowStart = 0
        /\ cd.iterations >= 1 => cd.startIndex <= cd.actualEndIndex
        /\ (cd.pc = "done" /\ Len(content) > 0) => cd.actualEndIndex = Len(content)
        /\ cd.pc = "done" => covered = 0..(Len(content) - 1)

\* C5 witness: a finished walk that took a sentence-boundary cut and several
\* windows.
ChunkCoverageWitness ==
    /\ cd.pc = "done"
    /\ maxSize >= 2 /\ ovl >= 1
    /\ Len(content) > maxSize
    /\ cd.iterations >= 3
    /\ \E i \in 1..(Len(content) - 1) :
          /\ content[i] = "." /\ content[i + 1] = " "
          /\ i < maxSize
          /\ 10 * (i - 1) > 7 * maxSize

\* C19: chunking "Sentence one. Sentence two. Sentence three." with a window of
\* 20 and an overlap of 5, every chunk that does not reach the end of the
\* content ends right after a period that is followed by a blank (so no chunk
\* ends inside a word).
SentenceBoundaryExample ==
    (/\ content = SentenceContent /\ maxSize = 20 /\ ovl = 5
     /\ cd.iterations > 0
     /\ cd.chunks # <<>>
     /\ cd.chunks[Len(cd.chunks)].content
            = trim(slice(content, cd.windowStart, cd.actualEndIndex))
     /\ cd.actualEndIndex < Len(content))
    => (/\ content[cd.actualEndIndex] = "."
        /\ content[cd.actualEndIndex + 1] = " ")

\* ======================= claims about the vector index adapter =======================

\* task t took the step
Stepped(t) == t \notin DOMAIN tasks' \/ tasks'[t] # tasks[t]

\* C1 (as claimed) - Replace-not-merge: once two addDocument calls for one source
\* have returned, and no call is running, the chunks stored under that source id
\* are exactly the chunks of the content of the later call, whatever the engine
\* answered to the delete.
ReplaceNotMerge ==
    \A j \in 1..Len(history) :
        (/\ j = Len(history)
         /\ history[j].op = "addDocument"
         /\ history[j].outcome = "returned"
         /\ \E i \in 1..(j - 1) : /\ history[i].op = "addDocument"
                                  /\ history[i].source = history[j].source
                                  /\ history[i].outcome = "returned")
            => {ch \in collection : ch.sourceId = history[j].source.id}
                   = SeqToSet(chunkDocument(history[j].content, history[j].source))

\* C12 - Batch failure aborts without rollback: when the engine rejects the add
\* of a batch during a direct addDocument call, the call ends there with the
\* error (no later batch is issued: the call chain is gone) and the vector
\* index is left as it was, the batches stored before included.
BatchFailureAborts ==
    [][\A t \in DOMAIN tasks :
        (/\ tasks[t].kind = "direct"
         /\ tasks[t].pc = "add"
         /\ Stepped(t)
         /\ faults' = faults + 1)
            => /\ t \notin DOMAIN tasks'
               /\ history'[Len(history')].outcome = "threw"
               /\ collection' = collection
      ]_vars

\* C12 witness: an addDocument call of two batches has ended with the error of
\* its second add; the 25 chunks of the first batch are stored, the chunk of
\* the second batch is not.
BatchFailureAbortsWitness ==
    /\ Len(history) = 1
    /\ history[1].outcome = "threw"
    /\ history[1].content = Rep("a", batchSize + 1)
    /\ DOMAIN tasks = {}
    /\ LET chunks == chunkDocument(history[1].content, history[1].source)
       IN  /\ Len(chunks) = batchSize + 1
           /\ \A j \in 1..batchSize : chunks[j] \in collection
           /\ chunks[batchSize + 1] \notin collection

\* the last two direct calls were both op, for the same source
TwiceInARow(h, op) ==
    /\ Len(h) >= 2
    /\ h[Len(h)].op = op /\ h[Len(h) - 1].op = op
    /\ h[Len(h)].source = h[Len(h) - 1].source

FirstWatchGuard ==
    [][\A t \in DOMAIN tasks :
        LET f   == tasks[t]
            doc == docs[f.path]
            id  == IF doc.id = NoId THEN <<"path", f.path>> ELSE doc.id
            inSetOfType == IF doc.type = "csv" THEN id \in svc.indexedCsvSources
                           ELSE id \in svc.indexedVectorSources
        IN  (/\ f.pc = "reading"
             /\ Stepped(t)
             /\ doc # NoDoc
             /\ (Truthy(doc.content) \/ Truthy(doc.rawCsvContent)))
            => IF inSetOfType
               THEN /\ indexLog' = indexLog
                    /\ svc'.indexedVectorSources = svc.indexedVectorSources
                    /\ svc'.indexedCsvSources = svc.indexedCsvSources
                    /\ svc'.processedBatches = svc.processedBatches
                    /\ collection' = collection
                    /\ csvSources' = csvSources
                    /\ t \in DOMAIN tasks' => tasks'[t].pc \notin {"delete", "add", "delay"}
               ELSE /\ Len(indexLog') = Len(indexLog) + 1
                    /\ indexLog'[Len(indexLog')].trigger = "first-watch"
                    /\ indexLog'[Len(indexLog')].path = f.path
                    /\ indexLog'[Len(indexLog')].doc = doc
      ]_vars

\* C6 witness: the second path holds a document with content whose id was indexed
\* under the first path; the scan has watched it and did not index it.
FirstWatchGuardWitness ==
    /\ edits = 0
    /\ "d2" \in svc.watchedPaths
    /\ docs["d1"] # NoDoc /\ docs["d2"] # NoDoc
    /\ docs["d1"].id = docs["d2"].id
    /\ \E k \in 1..Len(indexLog) : indexLog[k].trigger = "first-watch" /\ indexLog[k].path = "d1"
    /\ ~\E k \in 1..Len(indexLog) : indexLog[k].path = "d2"

\* notification n has been handed to its callback
Delivered(n) ==
    ~\E t \in DOMAIN tasks : tasks[t].kind = "cb" /\ tasks[t].n = n /\ tasks[t].pc = "notify"

\* the indexSource calls made for notification n
CallsFor(n) == {k \in 1..Len(indexLog) : indexLog[k].trigger = "change" /\ indexLog[k].n = n}

RoutingByType ==
    [][\A t \in DOMAIN tasks :
        LET f   == tasks[t]
            doc == IF f.pc = "reading" THEN docs[f.path] ELSE f.doc
            id  == IF doc.id = NoId THEN <<"path", f.path>> ELSE doc.id
        IN  (/\ f.kind \in {"scan", "cb"}
             /\ f.pc \in {"reading", "notify", "delete", "add", "delay"}
             /\ Stepped(t)
             /\ doc # NoDoc)
            => IF doc.type = "csv"
               THEN /\ collection' = collection
                    /\ svc'.indexedVectorSources = svc.indexedVectorSources
                    /\ Len(indexLog') > Len(indexLog) =>
                         LET used == IF Truthy(doc.rawCsvContent) THEN doc.rawCsvContent
                                     ELSE doc.content
                         IN  /\ id \in DOMAIN csvSources'
                             /\ csvSources'[id].headers = parseCSV(used).headers
                             /\ csvSources'[id].rows = parseCSV(used).rows
                             /\ id \in svc'.indexedCsvSources
                             /\ \A other \in DOMAIN csvSources :
                                    other # id => csvSources'[other] = csvSources[other]
               ELSE /\ csvSources' = csvSources
                    /\ svc'.indexedCsvSources = svc.indexedCsvSources
                    /\ svc'.indexedVectorSources \subseteq svc.indexedVectorSources \cup {id}
                    /\ \A ch \in collection : ch.sourceId # id => ch \in collection'
                    /\ \A ch \in collection' \ collection :
                          /\ ch.sourceId = id
                          /\ ch.sourceType = IF doc.type \in {"text", "pdf", "web"}
                                             THEN doc.type ELSE "text"
                          /\ ch \in SeqToSet(chunkDocument(doc.content, [id |-> id, type |-> ch.sourceType]))
      ]_vars

\* C8 witness: a document of an unknown type is stored in the vector index under
\* the label text, and a csv document with rawCsvContent is cached in the
\* tabular index, after one scan without edits.
RoutingByTypeWitness ==
    /\ edits = 0
    /\ docs["d1"] # NoDoc /\ docs["d2"] # NoDoc
    /\ docs["d1"].type = "ai"
    /\ docs["d2"].type = "csv"
    /\ \E ch \in collection : ch.sourceId = sourceIdOf(docs["d1"], "d1") /\ ch.sourceType = "text"
    /\ sourceIdOf(docs["d2"], "d2") \in DOMAIN csvSources
    /\ csvSources[sourceIdOf(docs["d2"], "d2")].headers = <<<<"h">>>>
    /\ svc.indexedVectorSources = {sourceIdOf(docs["d1"], "d1")}
    /\ svc.indexedCsvSources = {sourceIdOf(docs["d2"], "d2")}

\* the change notifications so far were each for another source than the ones
\* the scan loop still has to index: the path was already in watchedPaths when
\* it changed (the scan loop skips such a path), no path changed twice, and the
\* documents have different source ids
OtherSourcesOnly ==
    \A n \in 1..Len(notifications) :
        /\ notifications[n].watched
        /\ \A p, q \in Paths :
              (p # q /\ docs[p] # NoDoc /\ docs[q] # NoDoc)
                  => sourceIdOf(docs[p], p) # sourceIdOf(docs[q], q)
        /\ \A m \in 1..Len(notifications) :
              m # n => notifications[m].path # notifications[n].path

\* C9 (as claimed) - Progress monotonicity: no step decreases processedBatches,
\* under every interleaving of the scan loop's indexing of one source with
\* change-notification callbacks that re-index other watched sources.
ProgressMonotone ==
    [][OtherSourcesOnly => svc'.processedBatches >= svc.processedBatches]_vars

\* C10 (as claimed) - Batch bound: once the pre-scan has computed totalBatches,
\* and no document has been written since the start, processedBatches is at
\* most totalBatches.
BatchBound ==
    (svc.batchCalculationComplete /\ edits = 0)
        => svc.processedBatches <= svc.totalBatches

\* the batches the pre-scan is said to count for the document at path p: none
\* for a missing document or one without content, ceil(chunkCount / 25) for
\* text, pdf and web, one for csv
ClaimedBatchesOf(p) ==
    IF ~carriesContent(docs[p]) THEN 0
    ELSE IF sourceTypeOf(docs[p]) \in {"text", "pdf", "web"}
         THEN IF docs[p].content = Undefined THEN 0
              ELSE Ceil(calculateChunkCount(docs[p].content), batchSize)
    ELSE IF sourceTypeOf(docs[p]) = "csv" THEN 1
    ELSE 0

RECURSIVE SumOver(_, _)
SumOver(Op(_), S) ==
    IF S = {} THEN 0
    ELSE LET x == CHOOSE y \in S : TRUE IN Op(x) + SumOver(Op, S \ {x})

\* C11 (as claimed) - Pre-scan total: once the pre-scan has run (no document
\* written since the start, so nothing was tracked when it ran), totalBatches
\* is the sum over the listed documents with content of ceil(chunkCount / 25)
\* for text, pdf and web and of 1 for csv.
PrescanTotal ==
    (svc.batchCalculationComplete /\ edits = 0)
        => svc.totalBatches = SumOver(ClaimedBatchesOf, Paths)

\* addDocument throws by itself on this document: a vector-indexed type whose
\* content is undefined
FailsByItself(doc) == sourceTypeOf(doc) # "csv" /\ doc.content = Undefined

\* the source id of the document at path p is in the indexed set of its type
IndexedByType(p) ==
    IF sourceTypeOf(docs[p]) = "csv"
    THEN sourceIdOf(docs[p], p) \in svc.indexedCsvSources
    ELSE sourceIdOf(docs[p], p) \in svc.indexedVectorSources

\* the first scan has returned
FirstScanOver ==
    scans >= 1 /\ ~\E t \in DOMAIN tasks : tasks[t].kind = "scan" /\ tasks[t].n = 1

\* C13 - Watch-loop failure isolation: whatever failed while a source was
\* indexed, the first scan returns with every listed document watched; and, when
\* no document was written meanwhile, the sources left unindexed although their
\* documents can be indexed are at most as many as the engine calls that failed
\* (one failure never costs a second source its indexing).
WatchLoopIsolation ==
    FirstScanOver =>
        /\ \A p \in Paths : docs[p] # NoDoc => p \in svc.watchedPaths /\ p \in svc.listeners
        /\ edits = 0 =>
             Cardinality({p \in Paths : /\ carriesContent(docs[p])
                                        /\ ~FailsByItself(docs[p])
                                        /\ ~IndexedByType(p)}) <= faults

\* C13 witness: the add for the first document was rejected, the second
\* document is indexed all the same, and a periodic rescan has run after that.
WatchLoopIsolationWitness ==
    /\ faults = 1 /\ edits = 0 /\ scans = 2
    /\ DOMAIN tasks = {}
    /\ carriesContent(docs["d1"]) /\ ~FailsByItself(docs["d1"]) /\ ~IndexedByType("d1")
    /\ carriesContent(docs["d2"]) /\ IndexedByType("d2")
    /\ svc.watchedPaths = {"d1", "d2"}
    /\ \E ch \in collection : ch.sourceId = sourceIdOf(docs["d2"], "d2")
    /\ ~\E ch \in collection : ch.sourceId = sourceIdOf(docs["d1"], "d1")

\* the step of task t is one in which its index operation throws: the engine
\* rejects the add, or addDocument is handed an undefined content
Threw(t) ==
    \/ tasks[t].pc = "add" /\ faults' = faults + 1
    \/ tasks[t].pc = "delete" /\ tasks[t].content = Undefined

\* the first-watch indexSource calls made for path p
FirstWatchCalls(log, p) ==
    {k \in 1..Len(log) : log[k].trigger = "first-watch" /\ log[k].path = p}

\* C14 - Failed source bookkeeping: the step in which indexing a source fails
\* adds nothing to either indexed set and leaves the path out of the pending
\* set; and no path is indexed by the scan loop a second time.
FailedSourceBookkeeping ==
    [][/\ \A t \in DOMAIN tasks :
            (tasks[t].kind \in {"scan", "cb"} /\ Stepped(t) /\ Threw(t))
                => /\ svc'.indexedVectorSources = svc.indexedVectorSources
                   /\ svc'.indexedCsvSources = svc.indexedCsvSources
                   /\ tasks[t].path \notin svc'.pendingIndexing
       /\ \A p \in Paths : Cardinality(FirstWatchCalls(indexLog', p)) <= 1
      ]_vars

\* C14 witness: the only attempt to index the first document failed in the
\* engine; after two scans its id is in no indexed set, nothing is pending and
\* there was no second attempt.
FailedSourceBookkeepingWitness ==
    /\ faults = 1 /\ edits = 0 /\ scans = 2
    /\ DOMAIN tasks = {}
    /\ docs["d2"] = NoDoc
    /\ carriesContent(docs["d1"]) /\ ~FailsByItself(docs["d1"])
    /\ collection = {}
    /\ svc.indexedVectorSources = {} /\ svc.indexedCsvSources = {}
    /\ svc.pendingIndexing = {}
    /\ Cardinality(FirstWatchCalls(indexLog, "d1")) = 1

\* ======================= claims about retrieval =======================

\* the tabular query of the retrieval call that is over
TabularQueryOf(r) ==
    uiSmartQuery(csvCache,
                 IF r.options.csvQuery = Undefined THEN r.query ELSE r.options.csvQuery,
                 r.options.maxCsvResults)

RetrievalOver == rag.pc \in {"returned", "threw"}

NoSourcesFound == <<"No relevant sources found for this query.">>

\* C16: when a retrieval call is over in which the vector search gave no hit
\* (or was disabled) and the tabular query returned no result (or was
\* disabled), the call has returned, its combinedContext is exactly
\* "No relevant sources found for this query." and its textSources and
\* csvSources are empty.
GracefulEmptyRetrieval ==
    (/\ RetrievalOver
     /\ rag.textSources = <<>>
     /\ \/ ~rag.options.includeCsv
        \/ (~TabularQueryOf(rag).threw /\ TabularQueryOf(rag).results = <<>>))
    => (/\ rag.pc = "returned"
        /\ rag.combinedContext = NoSourcesFound
        /\ rag.textSources = <<>>
        /\ rag.csvSources = <<>>)

\* both backends were asked, the search answered with an empty list and the
\* tabular query found nothing in a cache that holds rows
GracefulEmptyRetrievalWitness ==
    /\ rag.pc = "returned"
    /\ rag.options.includeText /\ rag.options.includeCsv
    /\ rag.fetch = "results"
    /\ Len(csvCache) = 2
    /\ rag.textSources = <<>> /\ rag.csvSources = <<>>
    /\ rag.combinedContext = NoSourcesFound

\* the ways the vector search fails
FailedFetches == {"notOk", "badJson", "networkError"}

\* the tabular query of the call failed: it was asked and threw
TabularFailed(r) == r.options.includeCsv /\ TabularQueryOf(r).threw

\* the vector search failed, the tabular query did not: the call returned, with
\* no text source and with the tabular results in the combined context
VectorFailureTolerated ==
    (RetrievalOver /\ rag.fetch \in FailedFetches /\ ~TabularFailed(rag))
    => (/\ rag.pc = "returned"
        /\ rag.textSources = <<>>
        /\ rag.options.includeCsv =>
               /\ Len(rag.csvSources) = Len(TabularQueryOf(rag).results)
               /\ rag.csvSources # <<>> =>
                      /\ Head(rag.combinedContext) = "RELEVANT CSV DATA:"
                      /\ \A k \in 1..Len(rag.csvSources) :
                             includes(rag.combinedContext, trim(rag.csvSources[k].summary)))

\* the tabular query failed, the vector search did not: the call returned, with
\* no tabular source and with the hits of the search in the combined context
TabularFailureTolerated ==
    (RetrievalOver /\ TabularFailed(rag) /\ rag.fetch \notin FailedFetches)
    => (/\ rag.pc = "returned"
        /\ rag.csvSources = <<>>
        /\ rag.textSources # <<>> => Head(rag.combinedContext) = "RELEVANT TEXT SOURCES:")

\* C17: whichever of the two backends of a retrieval call fails while the other
\* succeeds, the call returns, with an empty list for the backend that failed
\* and with the other backend's results in the combined context.
PerBackendFailureTolerance ==
    VectorFailureTolerated /\ TabularFailureTolerated

\* ----- smartQuery -----
\* the cached sources the smartQuery that is over has looked at, each as its
\* id and the texts of its rows (the row's cell values joined by blanks)
CachedRowTexts(impl) ==
    IF impl = "worker"
    THEN {[sourceId |-> id,
           texts    |-> [k \in 1..Len(csvSources[id].rows) |->
                            workerRowText(csvSources[id], csvSources[id].rows[k])]]
          : id \in DOMAIN csvSources}
    ELSE {[sourceId |-> csvCache[n].sourceId,
           texts    |-> [k \in 1..Len(csvCache[n].rows) |-> uiRowText(csvCache[n].rows[k])]]
          : n \in 1..Len(csvCache)}

\* the query's terms: lower-cased, three characters or more, no stop word
QueryTerms(query) == extractSearchTerms(query)

\* a row matches when at least one term is a substring of its text, whatever the case
RowMatches(text, terms) ==
    \E k \in 1..Len(terms) : includes(toLowerCase(text), terms[k])

MatchingRowCount(source, terms) ==
    Cardinality({k \in 1..Len(source.texts) : RowMatches(source.texts[k], terms)})

\* what the claim says of a result list for these sources, terms and maxResults
RankedMatches(res, sources, terms, maxResults) ==
    /\ Len(res) <= maxResults
    /\ \A i, j \in 1..Len(res) : i < j =>
           /\ res[i].matchCount >= res[j].matchCount
           /\ res[i].sourceId # res[j].sourceId
    /\ \A i \in 1..Len(res) :
           \E s \in sources : /\ s.sourceId = res[i].sourceId
                              /\ MatchingRowCount(s, terms) > 0
                              /\ res[i].matchCount = MatchingRowCount(s, terms)
    /\ \A s \in sources :
           MatchingRowCount(s, terms) > 0 =>
               \/ \E i \in 1..Len(res) : res[i].sourceId = s.sourceId
               \/ /\ Len(res) = maxResults
                  /\ \A i \in 1..Len(res) : res[i].matchCount >= MatchingRowCount(s, terms)

SmartQueryRankingOf(impl) ==
    (queryResult.pc = "returned" /\ queryResult.impl = impl)
    => RankedMatches(queryResult.results, CachedRowTexts(impl),
                     QueryTerms(queryResult.query), queryResult.maxResults)

\* C18: in either CSVQueryService, the result of smartQuery lists the cached
\* sources that have a row in which at least one query term occurs, whatever
\* the case, each with the number of such rows as matchCount, in order of
\* non-increasing matchCount, cut to at most maxResults entries.
SmartQueryRanking ==
    SmartQueryRankingOf("worker") /\ SmartQueryRankingOf("ui")

WorkerSmartQueryRanking == SmartQueryRankingOf("worker")

\* ======================= claims about the engine calls =======================

\* the engine calls of direct call n, and its adds as they were issued
EventsOf(n) == SelectSeq(engineLog, LAMBDA e : e.call = n)
AddsIssuedBy(n) == SelectSeq(EventsOf(n), LAMBDA e : e.op = "add" /\ e.phase = "issued")

RECURSIVE Flatten(_)
Flatten(seqs) == IF Len(seqs) = 0 THEN <<>> ELSE Head(seqs) \o Flatten(Tail(seqs))

\* the ids of the chunks of the content of call n, in chunk order
ChunkIdsOf(n) ==
    IF history[n].content = Undefined THEN <<>>
    ELSE LET chunks == chunkDocument(history[n].content, history[n].source)
         IN  [k \in 1..Len(chunks) |-> chunks[k].id]

EngineCallOrderOf(n) ==
    LET ev   == EventsOf(n)
        adds == AddsIssuedBy(n)
        ids  == ChunkIdsOf(n)
        sent == Flatten([k \in 1..Len(adds) |-> adds[k].ids])
    IN  \* one engine call at a time, the delete first and only once
        /\ \A k \in 1..Len(ev) :
               /\ ev[k].phase = (IF k % 2 = 1 THEN "issued" ELSE "settled")
               /\ ev[k].op = (IF k <= 2 THEN "delete" ELSE "add")
        \* each add carries at most 25 chunks, a full batch unless it is the last
        /\ \A k \in 1..Len(adds) :
               /\ Len(adds[k].ids) \in 1..batchSize
               /\ k < Len(adds) => Len(adds[k].ids) = batchSize
        \* the chunks go out in chunk order, none twice
        /\ Len(sent) <= Len(ids)
        /\ sent = SubSeq(ids, 1, Len(sent))
        /\ \A i, j \in 1..Len(sent) : i < j => sent[i][2] < sent[j][2]
        \* a call that returned has sent every chunk, in ceil(chunkCount / 25) adds
        /\ history[n].outcome = "returned" =>
               /\ sent = ids
               /\ Len(adds) = Ceil(Len(ids), batchSize)

\* C20: within one addDocument call the delete settles before the first add is
\* issued, an add is issued only after the add before it has settled, the adds
\* carry the chunks in increasing chunk-index order, at most 25 each, every
\* chunk in exactly one add, and a call that returns has made
\* ceil(chunkCount / 25) adds.
\* (Stated of the latest call: the log of a call and its entry in history no
\* longer change once the next call is made.)
EngineCallOrder ==
    (history # <<>> /\ history[Len(history)].op = "addDocument")
    => EngineCallOrderOf(Len(history))

\* a call with 26 chunks has returned after its delete and two adds, of 25
\* chunks and of 1
EngineCallOrderWitness ==
    \E n \in 1..Len(history) :
        /\ history[n].op = "addDocument" /\ history[n].outcome = "returned"
        /\ Len(ChunkIdsOf(n)) = batchSize + 1
        /\ Len(EventsOf(n)) = 6
        /\ Len(AddsIssuedBy(n)) = 2
        /\ Len(AddsIssuedBy(n)[1].ids) = batchSize /\ Len(AddsIssuedBy(n)[2].ids) = 1

\* ======================= claims about the status snapshot =======================

\* the tasks that are inside indexSource for a vector source, an add in flight
AddingTasks == {t \in DOMAIN tasks : tasks[t].kind \in {"scan", "cb"} /\ tasks[t].pc = "add"}

\* C21: in a snapshot taken while one vector source is being indexed and its
\* add is in flight, the batch report for that source has totalChunks equal to
\* the number of the source's chunks and processedChunks equal to the number of
\* its chunks already added, so processedChunks <= totalChunks.
InFlightReportConsistent ==
    \A t \in AddingTasks :
        (/\ DOMAIN tasks = {t}
         /\ svc.currentBatchProgress.sourceId = tasks[t].source.id)
        => /\ svc.currentBatchProgress.totalChunks = Len(tasks[t].chunks)
           /\ svc.currentBatchProgress.processedChunks = tasks[t].i
           /\ svc.currentBatchProgress.processedChunks
                  <= svc.currentBatchProgress.totalChunks

\* ======================= claims about concurrent indexing =======================

\* the indexSource calls logged for source id x
CallsOfSource(x) ==
    {k \in 1..Len(indexLog) : sourceIdOf(indexLog[k].doc, indexLog[k].path) = x}

\* the chunks the adapter makes of document doc stored at path p
ChunkSetOf(doc, p) ==
    SeqToSet(chunkDocument(doc.content,
                           [id |-> sourceIdOf(doc, p), type |-> typeLabel(sourceTypeOf(doc))]))

\* C22: two addDocument calls for one source id, the first watch with the older
\* content and the change notification with the newer content, have both
\* completed, no engine call failed: the vector index then holds for that
\* source exactly the chunks of the newer content.
ConcurrentReindexNewerWins ==
    \A p \in Paths :
        LET x == sourceIdOf(docs[p], p)
            ks == CallsOfSource(x)
        IN  (/\ DOMAIN tasks = {} /\ faults = 0
             /\ carriesContent(docs[p]) /\ docs[p].content # Undefined
             /\ sourceTypeOf(docs[p]) # "csv"
             /\ \E k1, k2 \in ks :
                   /\ ks = {k1, k2} /\ k1 < k2
                   /\ indexLog[k1].trigger = "first-watch" /\ indexLog[k2].trigger = "change"
                   /\ indexLog[k1].path = p /\ indexLog[k2].path = p
                   /\ sourceTypeOf(indexLog[k1].doc) # "csv"
                   /\ indexLog[k1].doc.content # Undefined
                   /\ indexLog[k1].doc # indexLog[k2].doc
                   /\ indexLog[k2].doc = docs[p])
            => {ch \in collection : ch.sourceId = x} = ChunkSetOf(docs[p], p)

\* the batches the k-th logged indexSource call consumes when it succeeds:
\* ceil(chunkCount / 25) for a vector source, 1 for a csv source
BatchesConsumed(k) ==
    LET doc == indexLog[k].doc
    IN  IF sourceTypeOf(doc) = "csv"
        THEN IF Truthy(csvContentOf(doc)) THEN 1 ELSE 0
        ELSE IF doc.content = Undefined THEN 0
             ELSE Ceil(calculateChunkCount(doc.content), batchSize)

\* the logged calls that go through the vector adapter
VectorCalls == {k \in 1..Len(indexLog) : sourceTypeOf(indexLog[k].doc) # "csv"}

\* no two calls for one source can have overlapped: a csv call runs without
\* suspension, no source id has two vector calls, and the documents of two paths
\* have different source ids
OnlyDifferentSourcesInterleave ==
    /\ \A k1, k2 \in VectorCalls :
           sourceIdOf(indexLog[k1].doc, indexLog[k1].path)
               = sourceIdOf(indexLog[k2].doc, indexLog[k2].path) => k1 = k2
    /\ \A k1, k2 \in 1..Len(indexLog) :
           indexLog[k1].path # indexLog[k2].path
               => sourceIdOf(indexLog[k1].doc, indexLog[k1].path)
                      # sourceIdOf(indexLog[k2].doc, indexLog[k2].path)

\* C23: when no indexing operation is in flight, none has failed in the engine
\* and only calls for different sources have interleaved, processedBatches is
\* the sum of the batches consumed by the calls made so far.
ProcessedBatchAccounting ==
    (DOMAIN tasks = {} /\ faults = 0 /\ OnlyDifferentSourcesInterleave)
        => svc.processedBatches = SumOver(BatchesConsumed, 1..Len(indexLog))

\* ======================= claims about rescans =======================

\* scan n has been started and has returned
ScanOver(n) == scans >= n /\ ~\E t \in DOMAIN tasks : tasks[t].kind = "scan" /\ tasks[t].n = n

\* the indexSource calls scan n made for path p
AttemptsOfScan(n, p) == {k \in FirstWatchCalls(indexLog, p) : indexLog[k].n = n}

\* C25: a source that the first scan tried to index and whose id is in no
\* indexed set, the engine having rejected its add, is indexed again by the
\* second scan, which still lists its path unchanged.
RetryOnRescan ==
    \A p \in Paths :
        (/\ ScanOver(1) /\ ScanOver(2) /\ edits = 0
         /\ carriesContent(docs[p]) /\ ~FailsByItself(docs[p])
         /\ AttemptsOfScan(1, p) # {}
         /\ sourceIdOf(docs[p], p) \notin svc.indexedVectorSources \cup svc.indexedCsvSources)
        => AttemptsOfScan(2, p) # {}

\* ======================= claims about the life cycle of sources =======================

\* the paths the store lists
Listed == {p \in Paths : docs[p] # NoDoc}

\* nothing is left to do for the watch loop: no call chain is in flight, the
\* last scan has counted the documents the store lists now, and every listed
\* path has been through its first watch; a further rescan changes nothing
WatchLoopSettled ==
    /\ DOMAIN tasks = {}
    /\ scans >= 1
    /\ svc.totalSourcesFound = Cardinality(Listed)
    /\ Listed \subseteq svc.watchedPaths

\* C24: when the watch loop has settled, no store or engine call has failed and
\* every listed document is a text document with content, a status snapshot
\* taken after the 10 s activity window reports pendingCount = 0 and
\* isIndexing = false.
ReturnToIdle ==
    (/\ WatchLoopSettled /\ faults = 0
     /\ \A p \in Listed : docs[p] \in NewDocs)
    => /\ getStats(svc, FALSE).pendingCount = 0
       /\ ~getStats(svc, FALSE).isIndexing

\* the source ids under which the watch loop has indexed the document of path p
IdsIndexedFor(p) ==
    {sourceIdOf(indexLog[k].doc, p) : k \in {j \in 1..Len(indexLog) : indexLog[j].path = p}}

\* source id x is still in an index: chunks in the collection, a record set in
\* the tabular index, or the id in an indexed set
StillIndexed(x) ==
    \/ \E ch \in collection : ch.sourceId = x
    \/ x \in DOMAIN csvSources
    \/ x \in svc.indexedVectorSources \cup svc.indexedCsvSources

\* C26: a watched document has been removed from the store, its removal has
\* been notified and delivered, a rescan has found the path gone and the watch
\* loop has settled: no index holds anything of that source any more.
RemovalPropagates ==
    \A p \in Paths :
        (/\ WatchLoopSettled
         /\ docs[p] = NoDoc
         /\ p \in svc.watchedPaths
         /\ \E n \in 1..Len(notifications) :
                notifications[n].path = p /\ notifications[n].doc = NoDoc)
        => \A x \in IdsIndexedFor(p) :
               (\A q \in Listed : sourceIdOf(docs[q], q) # x) => ~StillIndexed(x)

\* C27: every path has at most one subscription in force, and a path that has
\* one has its unsubscribe handle in the listener map - also while two scans
\* overlap.
AtMostOneSubscription ==
    \A p \in Paths :
        subscriptions[p] <= (IF p \in svc.listeners THEN 1 ELSE 0)

\* C28: in every status snapshot the number of indexed ids is at most the
\* number of documents discovered, that is pendingCount >= 0.
NonNegativePending ==
    /\ getStats(svc, TRUE).indexedCount <= getStats(svc, TRUE).totalDiscovered
    /\ getStats(svc, TRUE).pendingCount >= 0

\* C29: every path in watchedPaths has a registered change listener, also when
\* listenToDoc or readDoc failed during the first watch of the path.
WatchedImpliesSubscribed ==
    \A p \in svc.watchedPaths :
        p \in svc.listeners /\ subscriptions[p] >= 1

\* ======================= claims about the path from indexing to retrieval =======================

\* the tabular query the retrieval call r makes
CsvQueryOf(r) == IF r.options.csvQuery = Undefined THEN r.query ELSE r.options.csvQuery

\* the query matches a row of the worker's record set csvData under either
\* reading of a match: it has a term, and all its terms occur in one row
MatchesARow(csvData, query) ==
    LET terms == SelectSeq(splitWhitespace(toLowerCase(query)), LAMBDA w : Len(w) > 2)
    IN  /\ Len(terms) > 0
        /\ terms = splitWhitespace(toLowerCase(query))
        /\ \E k \in 1..Len(csvData.rows) :
               \A j \in 1..Len(terms) : includes(workerRowText(csvData, csvData.rows[k]), terms[j])

\* C30: a queryRelevantSources call with includeCsv, made after the watch loop
\* has indexed a CSV source and with a query that matches one of its rows, has
\* returned: the source is in the csvSources it returned.
IndexedCsvReachesRetrieval ==
    \A x \in svc.indexedCsvSources :
        (/\ rag.pc = "returned"
         /\ rag.options.includeCsv
         /\ x \in DOMAIN csvSources
         /\ MatchesARow(csvSources[x], CsvQueryOf(rag)))
        => \E k \in 1..Len(rag.csvSources) : rag.csvSources[k].sourceId = x
====
